---------------------------- MODULE Spec2Model ----------------------------
(***************************************************************************)
(* Credential and trust-badge lifecycle of the securehire backend.         *)
(*                                                                         *)
(* The document store collections (Credential, Seeker, Application,        *)
(* SharedProof, Recruiter) are the state; every route handler is a         *)
(* sequence of awaited store or network calls, and each awaited call is    *)
(* one atomic step of the handler.  Handlers of different requests         *)
(* interleave between their steps (there is no lock and no transaction).   *)
(***************************************************************************)
EXTENDS Integers, FiniteSets, Sequences, TLC

(***************************************************************************)
(* Bounds of the model.                                                    *)
(***************************************************************************)
\* credential ids the signing authority can hand out
MaxCreds == 1
\* Application documents that can be created
MaxApps == 1
\* pending-credential requests a run can file
MaxReqs == 1
\* requests whose handlers are running at once
MaxInFlight == 2
\* trust credentials the signing authority hands out where an organisation is
\* approved more than once
MaxTrustCreds == 2
\* signed documents handed out to approvals of credential requests that run
\* side by side
MaxGrants == 2
\* applications a run can create where submissions run side by side
MaxApplies == 2

CredIds == 1..MaxCreds
AppIds == 1..MaxApps
ReqIds == {0 - n : n \in 1..MaxReqs}
\* ids a client can put in a request body: every credential id, and one id
\* that names no credential
ClientIds == 1..(MaxCreds + 1)

SeekerDids == {"did:seeker:1", "did:seeker:2"}
IssuerDids == {"did:issuer:1", "did:issuer:2"}
RecruiterDids == {"did:recruiter:1"}
JobIds == {"job1"}

\* vc.service.ts CredentialType, as far as the handlers tell the values apart
CredentialTypes == {"EmploymentCredential", "RecruiterCredential"}

NoDid == ""
NoTx == ""

\* User.roles: the cached state of each role (User.ts Role, RoleState)
Roles == {"seeker", "recruiter", "issuer"}
RoleStates == {"none", "active", "pending", "rejected"}

\* SessionPayload (requireSession.ts): the verified identity of a request; a
\* Session carries no wallet address, a WalletSession can.
Session(privyUserId, email, did) ==
  [privyUserId |-> privyUserId, email |-> email, did |-> did,
   wallet_address |-> ""]

\* String.prototype.trim and toLowerCase on the strings of the model
trim(str) ==
  CASE str = " Seeker@X " -> "Seeker@X"
    [] str = " did:privy:1 " -> "did:privy:1"
    [] str = " " -> ""
    [] OTHER -> str

toLowerCase(str) ==
  CASE str = "Seeker@X" -> "seeker@x"
    [] str = " Seeker@X " -> " seeker@x "
    [] str = "0xA1" -> "0xa1"
    [] OTHER -> str

\* /^0x[a-fA-F0-9]{40}$/.test(w): the wallet addresses of the model that have
\* the form of an address; "0xZZ" has not
matchesAddressPattern(w) == w \in {"0xA1", "0xa1", "0xa2"}

\* `did:pkh:eip155:80002:${address}`: the seeker DIDs of the model stand for
\* the did:pkh DIDs of the lower-case addresses, and "did:pkh:0xA1" for the
\* one that keeps the capitals of "0xA1"
didPkh(address) ==
  CASE address = "0xa1" -> "did:seeker:1"
    [] address = "0xa2" -> "did:seeker:2"
    [] OTHER -> "did:pkh:" \o address

\* sDid.startsWith("did:pkh:")
startsWithDidPkh(did) == did \in SeekerDids \cup {"did:pkh:0xA1"}

\* a verified session claim with a wallet address
WalletSession(privyUserId, email, did, wallet_address) ==
  [privyUserId |-> privyUserId, email |-> email, did |-> did,
   wallet_address |-> wallet_address]

NoSession == Session("", "", NoDid)
\* one holder, signed in by email alone, with one wallet, with another wallet
SeekerByEmail == Session("user:seeker", "seeker@x", NoDid)
SeekerWallet1 == Session("user:seeker", "seeker@x", "did:seeker:1")
SeekerWallet2 == Session("user:seeker", "seeker@x", "did:seeker:2")
RecruiterSession == Session("user:recruiter", "org@x", "did:recruiter:1")
IssuerSession == Session("user:issuer", "issuer@x", "did:issuer:1")

\* requests passing through the middleware at once
HttpSlots == {1, 2}
\* _id values of Seeker documents
SeekerDocIds == {1, 2}

VARIABLES
  credentials,    \* Credential collection: credentialId -> document
  seekers,        \* Seeker collection: did -> document
  applications,   \* Application collection: _id -> document
  sharedProofs,   \* SharedProof collection: <<applicationId, vcId>> -> revealedDocument
  recruiters,     \* Recruiter collection: did -> document
  chain,          \* TrustBadgeRegistry contract: did -> badge status on the ledger
  requestCount,   \* pending-credential requests filed so far
  cascaded,       \* credential ids for which a downstream step of a revoke has run
  revokeReq,      \* POST /issuer/vc/revoke in flight
  postReq,        \* POST /applications in flight
  patchReq,       \* PATCH /applications/:id/shared-vcs in flight
  listReq,        \* GET /applications/:id or /applications/by-job in flight
  verifyReq,      \* POST /recruiters/verify-vc or /proofs/verify in flight
  approveReq,     \* POST /issuer/recruiters/:id/approve in flight
  users,          \* User collection: privyUserId -> document (the cached role states)
  seekerDocs,     \* Seeker collection, identity fields: _id -> [email, did, onboarded]
  issuerDocs,     \* Issuer collection: did -> document
  signed,         \* ids of the documents the signing authority has returned
  httpReq,        \* requests passing through the session / role middleware: slot -> request
  env,            \* process.env: which contract addresses are configured
  didRegistry,    \* DIDRegistry contract: the DIDs registered on the ledger
  jobs,           \* Job collection: _id -> document
  jobReq,         \* POST /jobs, GET /jobs, GET /jobs/:id or GET /applications/:id (job part) in flight
  issuerKeys,     \* Issuer collection, BBS key material: did -> key pair
  keyReq,         \* issueSimpleVc calls in flight: slot -> call
  signedWith,     \* <<issuer did, key pair>> of every signing exchange that was sent
  grantReq,       \* POST /issuer/requests/:requestId/approve calls, by slot
  applyReq        \* POST /applications calls running side by side, by slot

stores == <<credentials, seekers, applications, sharedProofs, recruiters, chain,
            requestCount, cascaded>>
slots == <<revokeReq, postReq, patchReq, listReq, verifyReq, approveReq>>
aux == <<env, didRegistry, jobs, jobReq, issuerKeys, keyReq, signedWith, grantReq, applyReq>>
ident == <<users, seekerDocs, issuerDocs, httpReq, aux>>
vars == <<credentials, seekers, applications, sharedProofs, recruiters, chain,
          requestCount, cascaded,
          revokeReq, postReq, patchReq, listReq, verifyReq, approveReq,
          users, seekerDocs, issuerDocs, signed, httpReq,
          env, didRegistry, jobs, jobReq, issuerKeys, keyReq, signedWith, grantReq, applyReq>>

(***************************************************************************)
(* Documents.                                                              *)
(***************************************************************************)
\* the signed document the signing authority returns for an unsigned one
SignedVc(vcId, subjectDid, issuerDid, credentialType) ==
  [id |-> vcId, type |-> <<"VerifiableCredential", credentialType>>,
   issuer |-> issuerDid, subject |-> subjectDid, proof |-> "BbsBlsSignature2020"]

NewCredential(vcId, subjectDid, issuerDid, credentialType, txHash) ==
  [subjectDid |-> subjectDid, issuerDid |-> issuerDid,
   type |-> <<"VerifiableCredential", credentialType>>,
   status |-> "active",
   vcRaw |-> SignedVc(vcId, subjectDid, issuerDid, credentialType),
   onChainTxHash |-> txHash, revocationTxHash |-> NoTx]

\* Array.isArray(cred.type) && cred.type.includes("RecruiterCredential")
isRecruiterVc(type) ==
  \E i \in 1..Len(type) : type[i] = "RecruiterCredential"

\* Credential.create under the unique index on credentialId: a second document
\* with the same credentialId is rejected (E11000) and nothing is written.
CredentialCreate_Upsert(store, vcId, doc) ==
  [c \in DOMAIN store \cup {vcId} |-> IF c = vcId THEN doc ELSE store[c]]

CredentialCreate(store, vcId, doc) ==
  IF vcId \in DOMAIN store THEN store ELSE store @@ (vcId :> doc)

\* whether Credential.create resolved (TRUE) or threw the duplicate-key error
CredentialCreateOk_Always(store, vcId) == TRUE

CredentialCreateOk(store, vcId) == vcId \notin DOMAIN store

(***************************************************************************)
(* The signing exchange (vc.service.ts callBbsIssue).  An exchange x is    *)
(* what the world outside the handler does with one signing attempt:       *)
(* keyOk - ensureBbsKeyForIssuer left the issuer with key material and a   *)
(* verification-method id; status - the HTTP status of POST /bbs/issue     *)
(* (0: the call itself failed); id - the id of the signed document in the  *)
(* answer (0: the answer carries none).                                    *)
(***************************************************************************)
SignedReply(vcId) == [keyOk |-> TRUE, status |-> 200, id |-> vcId]

BbsExchanges ==
  {SignedReply(c) : c \in CredIds}
    \cup {[keyOk |-> TRUE, status |-> 200, id |-> 0],
          [keyOk |-> TRUE, status |-> 503, id |-> 0],
          [keyOk |-> TRUE, status |-> 0, id |-> 0],
          [keyOk |-> FALSE, status |-> 0, id |-> 0]}

\* the ids of the signed documents the signing authority returned in the
\* exchange: it is called only for an issuer with a record and key material
BbsReturned(issuers, issuerDid, x) ==
  IF issuerDid \in DOMAIN issuers /\ x.keyOk /\ x.status = 200 /\ x.id # 0
  THEN {x.id} ELSE {}

\* callBbsIssue: the set holding the returned vcId, or the empty set when the
\* function throws
callBbsIssue_NoIssuerCheck(issuers, issuerDid, x) ==
  IF x.id # 0 THEN {x.id} ELSE {}

callBbsIssue(issuers, issuerDid, x) ==
  IF issuerDid \notin DOMAIN issuers THEN {}
  ELSE IF ~x.keyOk THEN {}
  ELSE IF x.status # 200 THEN {}
  ELSE IF x.id = 0 THEN {}
  ELSE {x.id}

(***************************************************************************)
(* Request slots.  A slot is idle, or holds the handler's position (pc),   *)
(* its inputs and locals, and, once the handler has answered (pc = "done"),*)
(* the HTTP status and body of the response.                               *)
(***************************************************************************)
\* the JSON body of an answer of POST /issuer/vc/revoke: { error } or
\* { revoked: true, ..., badgeRevocation }, an absent field as "" or FALSE
RevokeBody(error, revoked, badgeRevocation) ==
  [error |-> error, revoked |-> revoked, badgeRevocation |-> badgeRevocation]

IdleRevoke ==
  [pc |-> "idle", credentialId |-> 0, issuerDid |-> NoDid, type |-> <<>>,
   subjectDid |-> NoDid, credStatus |-> "", stale |-> FALSE, status |-> 0,
   failedAt |-> "", tx |-> NoTx, body |-> RevokeBody("", FALSE, NoTx)]

IdlePost ==
  [pc |-> "idle", seekerDid |-> NoDid, recruiterDid |-> NoDid, jobId |-> "",
   sharedVcIds |-> {}, appId |-> 0, creds |-> {}, validSelected |-> {},
   status |-> 0]

IdlePatch ==
  [pc |-> "idle", sessionDid |-> NoDid, appId |-> 0, requested |-> {},
   seekerDid |-> NoDid, creds |-> {}, validSelected |-> {}, status |-> 0]

IdleList ==
  [pc |-> "idle", route |-> "", appIds |-> {}, proofsRaw |-> {}, proofs |-> {},
   status |-> 0]

IdleVerify ==
  [pc |-> "idle", route |-> "", appId |-> 0, vcId |-> 0, doc |-> {},
   status |-> 0, valid |-> FALSE]

IdleApprove ==
  [pc |-> "idle", recruiterDid |-> NoDid, issuerDid |-> NoDid, txHash |-> NoTx,
   vcId |-> 0, ledgerOk |-> FALSE, status |-> 0, failedAt |-> ""]

\* a request in the middleware chain of its route: at is the position in
\* the chain, pc the step within the middleware at that position, user the
\* loaded req.user (a set: empty before requireUser), doc and desired the record
\* a role sync read and the state it derived, synced the roles whose sync has
\* completed, saved the roles for which a sync persisted the user, gate the
\* role gates evaluated, onboarded the onboarded flag of the request body, then
\* of the saved Seeker document
IdleHttp ==
  [pc |-> "idle", route |-> "", session |-> NoSession, at |-> 0, user |-> {},
   doc |-> {}, desired |-> "", synced |-> {}, saved |-> {}, gate |-> {},
   onboarded |-> FALSE, didTx |-> NoTx, status |-> 0]

\* a job request: route and inputs, trustStatus the status computed for a new
\* job and ledgerOk whether the ledger answered, revokedAtStart the
\* organisations whose badge was revoked when the request arrived, docs and rec
\* the Job and Recruiter documents read, view the job DTOs of the answer
\* (jobId -> [verified, trustStatus])
IdleJob ==
  [pc |-> "idle", route |-> "", didOwner |-> "", verified |-> FALSE,
   jobId |-> "", trustStatus |-> "", ledgerOk |-> TRUE, revokedAtStart |-> {},
   docs |-> <<>>, rec |-> {}, view |-> <<>>, status |-> 0]

\* no key pair
NoKey == ""

\* an issueSimpleVc call: the issuer and the key pair of the Issuer document
\* the call holds in memory
IdleKey ==
  [pc |-> "idle", issuerDid |-> "", key |-> NoKey, status |-> 0]

\* an approval of a credential request: the request and the issuer of the
\* session, then the holder and the pendingVcRequests and vcs of the Seeker
\* document as read, the id of the signed document
IdleGrant ==
  [pc |-> "idle", requestId |-> 0, issuerDid |-> NoDid, seekerDid |-> NoDid,
   pendingVcRequests |-> {}, vcs |-> {}, vcId |-> 0, status |-> 0]

Busy(slot) == IF slot.pc = "idle" THEN 0 ELSE 1

InFlight ==
  Busy(revokeReq) + Busy(postReq) + Busy(patchReq) + Busy(listReq)
    + Busy(verifyReq) + Busy(approveReq) + Busy(httpReq[1]) + Busy(httpReq[2])
    + Busy(jobReq) + Busy(keyReq[1]) + Busy(keyReq[2])
    + Busy(grantReq[1]) + Busy(grantReq[2])
    + Busy(applyReq[1]) + Busy(applyReq[2])

\* a new request is accepted while fewer than MaxInFlight handlers are running
CanStart == InFlight < MaxInFlight

(***************************************************************************)
(* Initial state: empty collections, the seekers and recruiters of the     *)
(* model created (POST /seekers/onboarding, POST /recruiters), no request  *)
(* in flight.                                                              *)
(***************************************************************************)
NewSeeker == [vcs |-> {}, pendingVcRequests |-> {}, defaultSharedVcIds |-> {}]

SeekerDoc(email, did, onboarded) ==
  [email |-> email, did |-> did, onboarded |-> onboarded]

\* no request in flight
NoRequests ==
  /\ revokeReq = IdleRevoke
  /\ postReq = IdlePost
  /\ patchReq = IdlePatch
  /\ listReq = IdleList
  /\ verifyReq = IdleVerify
  /\ approveReq = IdleApprove
  /\ httpReq = [k \in HttpSlots |-> IdleHttp]
  /\ jobReq = IdleJob
  /\ keyReq = [k \in HttpSlots |-> IdleKey]
  /\ grantReq = [k \in HttpSlots |-> IdleGrant]
  /\ applyReq = [k \in HttpSlots |-> IdlePost]

\* the deployment's environment: the trust-badge registry is configured, the
\* DID registry is not
DefaultEnv == [DID_REGISTRY_ADDRESS |-> FALSE, TRUST_BADGE_REGISTRY_ADDR |-> TRUE]

\* no job posted, no DID registered, no issuer key pair generated, no signing
\* exchange sent
NoJobsNoKeys ==
  /\ didRegistry = {}
  /\ jobs = <<>>
  /\ issuerKeys = [i \in IssuerDids |-> NoKey]
  /\ signedWith = {}

\* new Recruiter({ onboarded: false, kycStatus: "none", badge: { verified: false } })
\* with the schema default badge.status "None"
NewRecruiter ==
  [onboarded |-> FALSE, kycStatus |-> "none",
   badge |-> [verified |-> FALSE, status |-> "None", txHash |-> NoTx,
              credentialId |-> 0, revocationTxHash |-> NoTx]]

Init ==
  /\ credentials = <<>>
  /\ seekers = [s \in SeekerDids |-> NewSeeker]
  /\ applications = <<>>
  /\ sharedProofs = <<>>
  /\ recruiters = [r \in RecruiterDids |-> NewRecruiter]
  /\ chain = [r \in RecruiterDids |-> "None"]
  /\ requestCount = 0
  /\ cascaded = {}
  /\ users = <<>>
  /\ seekerDocs = (1 :> SeekerDoc("seeker1@x", "did:seeker:1", TRUE))
                    @@ (2 :> SeekerDoc("seeker2@x", "did:seeker:2", TRUE))
  /\ issuerDocs = [i \in IssuerDids |-> [onboarded |-> TRUE]]
  /\ signed = {}
  /\ env = DefaultEnv
  /\ NoJobsNoKeys
  /\ NoRequests

(***************************************************************************)
(* Issuance.                                                               *)
(***************************************************************************)
\* POST /seekers/vcs/request: the seeker files a pending request with an issuer.
\* Request ids (`${Date.now()}-${random}`) are fresh and are no credential ids:
\* request n has id -n.
RequestVc(seekerDid, issuerDid) ==
  /\ requestCount < MaxReqs
  /\ requestCount' = requestCount + 1
  /\ seekers' = [seekers EXCEPT ![seekerDid].pendingVcRequests =
                   @ \cup {[id |-> 0 - (requestCount + 1), issuerDid |-> issuerDid]}]
  /\ UNCHANGED <<ident, signed>>
  /\ UNCHANGED <<credentials, applications, sharedProofs, recruiters, chain,
                 cascaded, slots>>

\* POST /issuer/vc/issue: the session issuer signs and stores a credential for
\* any subject DID and any credentialType the body names.  Without an Issuer
\* record of the session the route answers 404; a signing exchange that throws
\* is answered 500; in both cases nothing is created.
IssueVc(issuerDid, subjectDid, credentialType, x) ==
  /\ LET ids == IF issuerDid \in DOMAIN issuerDocs
                THEN callBbsIssue(issuerDocs, issuerDid, x) ELSE {}
     IN  credentials' =
           IF ids = {} THEN credentials
           ELSE LET vcId == CHOOSE c \in ids : TRUE
                IN  CredentialCreate(credentials, vcId,
                      NewCredential(vcId, subjectDid, issuerDid, credentialType, NoTx))
  /\ signed' = signed \cup BbsReturned(issuerDocs, issuerDid, x)
  /\ UNCHANGED ident
  /\ UNCHANGED <<seekers, applications, sharedProofs, recruiters, chain,
                 requestCount, cascaded, slots>>

\* credentialDoc._id: the store's own id of a Credential document, which is
\* neither a credentialId nor a request id
ObjectId(vcId) == 1000 + vcId

\* POST /issuer/requests/:requestId/approve by the issuer the request names:
\* sign, Credential.create, then move the request into seeker.vcs and save.
\* saveOk = FALSE is seeker.save() throwing after the credential was created.
\* A signing exchange that throws is answered 500 before anything is written.
ApproveRequest(seekerDid, requestId, x, saveOk) ==
  /\ \E r \in seekers[seekerDid].pendingVcRequests : r.id = requestId
  /\ LET reqEntry == CHOOSE r \in seekers[seekerDid].pendingVcRequests : r.id = requestId
         ids == callBbsIssue(issuerDocs, reqEntry.issuerDid, x)
         vcId == IF ids = {} THEN 0 ELSE CHOOSE c \in ids : TRUE
         created == ids # {} /\ CredentialCreateOk(credentials, vcId)
     IN  /\ credentials' =
              IF ids = {} THEN credentials
              ELSE CredentialCreate(credentials, vcId,
                     NewCredential(vcId, seekerDid, reqEntry.issuerDid,
                                   "EmploymentCredential", NoTx))
         /\ signed' = signed \cup BbsReturned(issuerDocs, reqEntry.issuerDid, x)
         /\ seekers' =
              IF created /\ saveOk
              THEN [seekers EXCEPT
                      ![seekerDid].pendingVcRequests = @ \ {reqEntry},
                      ![seekerDid].vcs = @ \cup {[id |-> ObjectId(vcId),
                                                  credentialId |-> vcId,
                                                  status |-> "active"]}]
              ELSE seekers
  /\ UNCHANGED ident
  /\ UNCHANGED <<applications, sharedProofs, recruiters, chain, requestCount,
                 cascaded, slots>>

\* POST /issuer/requests/:requestId/reject: Seeker.findOne({
\* "pendingVcRequests.id": requestId }); without one 404, for a request that
\* names another issuer 403; otherwise the request leaves pendingVcRequests and
\* an entry { id: requestEntry.id, status: "rejected", credentialId: undefined }
\* is appended to seeker.vcs.
RejectRequest(issuerDid, requestId) ==
  /\ \E s \in DOMAIN seekers :
       \E r \in seekers[s].pendingVcRequests : r.id = requestId
  /\ LET s == CHOOSE d \in DOMAIN seekers :
                \E r \in seekers[d].pendingVcRequests : r.id = requestId
         reqEntry == CHOOSE r \in seekers[s].pendingVcRequests : r.id = requestId
     IN  seekers' =
           IF reqEntry.issuerDid # issuerDid THEN seekers
           ELSE [seekers EXCEPT
                   ![s].pendingVcRequests = @ \ {reqEntry},
                   ![s].vcs = @ \cup {[id |-> reqEntry.id, credentialId |-> 0,
                                       status |-> "rejected"]}]
  /\ UNCHANGED <<ident, signed>>
  /\ UNCHANGED <<credentials, applications, sharedProofs, recruiters, chain,
                 requestCount, cascaded, slots>>

\* PATCH /seekers/vcs/share-default: keep the requested ids that appear in the
\* seeker's vcs list (v.credentialId || v.id, falsy values dropped).
AllowedDefaultIds(vcs) ==
  {IF v.credentialId # 0 THEN v.credentialId ELSE v.id : v \in vcs} \ {0}

ShareDefault(seekerDid, defaultSharedVcIds) ==
  /\ seekers' = [seekers EXCEPT ![seekerDid].defaultSharedVcIds =
                   defaultSharedVcIds \cap AllowedDefaultIds(seekers[seekerDid].vcs)]
  /\ UNCHANGED <<ident, signed>>
  /\ UNCHANGED <<credentials, applications, sharedProofs, recruiters, chain,
                 requestCount, cascaded, slots>>

(***************************************************************************)
(* POST /issuer/vc/revoke.                                                 *)
(***************************************************************************)
\* res.json({ revoked: true, reason, meta, badgeRevocation }), or the catch
\* block's res.status(500).json({ error: "Failed to revoke VC" })
RevokeDone(status, failedAt) ==
  [revokeReq EXCEPT !.pc = "done", !.status = status, !.failedAt = failedAt,
                    !.body = IF status = 200
                             THEN RevokeBody("", TRUE, revokeReq.tx)
                             ELSE RevokeBody("Failed to revoke VC", FALSE, NoTx)]

\* what a completed revoke of credential c leaves behind: for a personal
\* credential the holder's entry revoked, the id in no default set of the
\* holder, in no application and no SharedProof record for it; for a trust
\* credential of an organisation on file the ledger and the badge revoked
CascadeDone(c) ==
  LET cred == credentials[c]
  IN  IF isRecruiterVc(cred.type)
      THEN cred.subjectDid \in DOMAIN recruiters =>
             /\ chain[cred.subjectDid] = "Revoked"
             /\ recruiters[cred.subjectDid].badge.status = "Revoked"
             /\ ~recruiters[cred.subjectDid].badge.verified
      ELSE /\ cred.subjectDid \in DOMAIN seekers =>
                /\ \A v \in seekers[cred.subjectDid].vcs :
                     v.credentialId = c => v.status = "revoked"
                /\ c \notin seekers[cred.subjectDid].defaultSharedVcIds
           /\ \A a \in DOMAIN applications : c \notin applications[a].sharedVcIds
           /\ \A k \in DOMAIN sharedProofs : k[2] # c

\* Credential.findOne({ credentialId, issuerDid }); 404 when there is none.
\* credStatus is the status of the document read, stale whether something of
\* the cascade was outstanding for the credential when the request arrived
RevokeFind_AnyIssuer(credentialId, issuerDid) ==
  /\ revokeReq.pc = "idle"
  /\ CanStart
  /\ LET found == credentialId \in DOMAIN credentials
         req == [IdleRevoke EXCEPT !.credentialId = credentialId,
                                   !.issuerDid = issuerDid]
     IN  revokeReq' =
           IF found
           THEN [req EXCEPT !.pc = "mark",
                            !.type = credentials[credentialId].type,
                            !.subjectDid = credentials[credentialId].subjectDid,
                            !.credStatus = credentials[credentialId].status,
                            !.stale = ~CascadeDone(credentialId)]
           ELSE [req EXCEPT !.pc = "done", !.status = 404,
                            !.body = RevokeBody("not found", FALSE, NoTx)]
  /\ UNCHANGED <<ident, signed>>
  /\ UNCHANGED <<stores, postReq, patchReq, listReq, verifyReq, approveReq>>

RevokeFind(credentialId, issuerDid) ==
  /\ revokeReq.pc = "idle"
  /\ CanStart
  /\ LET found == credentialId \in DOMAIN credentials
                    /\ credentials[credentialId].issuerDid = issuerDid
         req == [IdleRevoke EXCEPT !.credentialId = credentialId,
                                   !.issuerDid = issuerDid]
     IN  revokeReq' =
           IF found
           THEN [req EXCEPT !.pc = "mark",
                            !.type = credentials[credentialId].type,
                            !.subjectDid = credentials[credentialId].subjectDid,
                            !.credStatus = credentials[credentialId].status,
                            !.stale = ~CascadeDone(credentialId)]
           ELSE [req EXCEPT !.pc = "done", !.status = 404,
                            !.body = RevokeBody("not found", FALSE, NoTx)]
  /\ UNCHANGED <<ident, signed>>
  /\ UNCHANGED <<stores, postReq, patchReq, listReq, verifyReq, approveReq>>

\* 1) Credential.findOneAndUpdate(..., { $set: { status: "revoked", ... } })
MarkRevoked_Skipped(store, credentialId, issuerDid) == store

MarkRevoked(store, credentialId, issuerDid) ==
  [c \in DOMAIN store |->
     IF c = credentialId /\ store[c].issuerDid = issuerDid
     THEN [store[c] EXCEPT !.status = "revoked"]
     ELSE store[c]]

\* a handler that answers a revoke of an already revoked credential at once
RevokeMarkRevoked_ShortCircuit ==
  /\ revokeReq.pc = "mark"
  /\ credentials' = MarkRevoked(credentials, revokeReq.credentialId, revokeReq.issuerDid)
  /\ revokeReq' = IF revokeReq.credStatus = "revoked" THEN RevokeDone(200, "")
                  ELSE [revokeReq EXCEPT !.pc =
                          IF isRecruiterVc(revokeReq.type) THEN "findRecruiter"
                          ELSE "seekerUpdate"]
  /\ UNCHANGED <<ident, signed>>
  /\ UNCHANGED <<seekers, applications, sharedProofs, recruiters, chain,
                 requestCount, cascaded, postReq, patchReq, listReq, verifyReq,
                 approveReq>>

RevokeMarkRevoked ==
  /\ revokeReq.pc = "mark"
  /\ credentials' = MarkRevoked(credentials, revokeReq.credentialId, revokeReq.issuerDid)
  /\ revokeReq' = [revokeReq EXCEPT !.pc =
                     IF isRecruiterVc(revokeReq.type) THEN "findRecruiter"
                     ELSE "seekerUpdate"]
  /\ UNCHANGED <<ident, signed>>
  /\ UNCHANGED <<seekers, applications, sharedProofs, recruiters, chain,
                 requestCount, cascaded, postReq, patchReq, listReq, verifyReq,
                 approveReq>>

\* Seeker.updateOne({ did: cred.subjectDid },
\*   { $set: { "vcs.$[v].status": "revoked" }, $pull: { defaultSharedVcIds } })
RevokeSeekerUpdate ==
  /\ revokeReq.pc = "seekerUpdate"
  /\ seekers' =
       [s \in DOMAIN seekers |->
          IF s = revokeReq.subjectDid
          THEN [seekers[s] EXCEPT
                  !.vcs = {IF v.credentialId = revokeReq.credentialId
                           THEN [v EXCEPT !.status = "revoked"] ELSE v : v \in @},
                  !.defaultSharedVcIds = @ \ {revokeReq.credentialId}]
          ELSE seekers[s]]
  /\ cascaded' = cascaded \cup {revokeReq.credentialId}
  /\ revokeReq' = [revokeReq EXCEPT !.pc = "appsPull"]
  /\ UNCHANGED <<ident, signed>>
  /\ UNCHANGED <<credentials, applications, sharedProofs, recruiters, chain,
                 requestCount, postReq, patchReq, listReq, verifyReq, approveReq>>

\* Application.updateMany({ sharedVcIds: credentialId }, { $pull: { sharedVcIds } })
RevokeAppsPull ==
  /\ revokeReq.pc = "appsPull"
  /\ applications' =
       [a \in DOMAIN applications |->
          [applications[a] EXCEPT !.sharedVcIds = @ \ {revokeReq.credentialId}]]
  /\ cascaded' = cascaded \cup {revokeReq.credentialId}
  /\ revokeReq' = [revokeReq EXCEPT !.pc = "proofsDelete"]
  /\ UNCHANGED <<ident, signed>>
  /\ UNCHANGED <<credentials, seekers, sharedProofs, recruiters, chain,
                 requestCount, postReq, patchReq, listReq, verifyReq, approveReq>>

\* SharedProof.deleteMany({ vcId: credentialId }), then the 200 response
RevokeProofsDelete ==
  /\ revokeReq.pc = "proofsDelete"
  /\ sharedProofs' =
       [k \in {p \in DOMAIN sharedProofs : p[2] # revokeReq.credentialId} |->
          sharedProofs[k]]
  /\ cascaded' = cascaded \cup {revokeReq.credentialId}
  /\ revokeReq' = RevokeDone(200, "")
  /\ UNCHANGED <<ident, signed>>
  /\ UNCHANGED <<credentials, seekers, applications, recruiters, chain,
                 requestCount, postReq, patchReq, listReq, verifyReq, approveReq>>

\* 2) recruiter trust VC: Recruiter.findOne({ did: cred.subjectDid }); without a
\* recruiter of that DID the handler answers 200 with badgeRevocation null
RevokeFindRecruiter ==
  /\ revokeReq.pc = "findRecruiter"
  /\ revokeReq' = IF revokeReq.subjectDid \in DOMAIN recruiters
                   THEN [revokeReq EXCEPT !.pc = "ledger"]
                   ELSE RevokeDone(200, "")
  /\ UNCHANGED <<ident, signed>>
  /\ UNCHANGED <<stores, postReq, patchReq, listReq, verifyReq, approveReq>>

\* TrustBadgeRegistry.revokeBadge(did), awaited until the transaction is mined
revokeRecruiterBadgeOnChain(ledger, did) == [ledger EXCEPT ![did] = "Revoked"]

\* const tx = await revokeRecruiterBadgeOnChain(recruiter.did); a rejected call
\* throws into the catch block
RevokeLedger(ok) ==
  /\ revokeReq.pc = "ledger"
  /\ IF ok
     THEN /\ chain' = revokeRecruiterBadgeOnChain(chain, revokeReq.subjectDid)
          /\ cascaded' = cascaded \cup {revokeReq.credentialId}
          /\ revokeReq' = [revokeReq EXCEPT !.pc = "badgeUpdate", !.tx = "0xrevoke"]
     ELSE /\ revokeReq' = RevokeDone(500, "ledger")
          /\ UNCHANGED <<chain, cascaded>>
  /\ UNCHANGED <<ident, signed>>
  /\ UNCHANGED <<credentials, seekers, applications, sharedProofs, recruiters,
                 requestCount, postReq, patchReq, listReq, verifyReq, approveReq>>

\* Recruiter.updateOne({ _id }, { $set: { "badge.verified": false,
\*   "badge.status": "Revoked", ..., "badge.revocationTxHash": tx.txHash } })
RevokedBadge_VerifiedOnly(badge, txHash) ==
  [badge EXCEPT !.verified = FALSE, !.revocationTxHash = txHash]

RevokedBadge(badge, txHash) ==
  [badge EXCEPT !.verified = FALSE, !.status = "Revoked",
                !.revocationTxHash = txHash]

RevokeBadgeUpdate ==
  /\ revokeReq.pc = "badgeUpdate"
  /\ recruiters' = [recruiters EXCEPT ![revokeReq.subjectDid].badge =
                      RevokedBadge(@, revokeReq.tx)]
  /\ cascaded' = cascaded \cup {revokeReq.credentialId}
  /\ revokeReq' = [revokeReq EXCEPT !.pc = "credTx"]
  /\ UNCHANGED <<ident, signed>>
  /\ UNCHANGED <<credentials, seekers, applications, sharedProofs, chain,
                 requestCount, postReq, patchReq, listReq, verifyReq, approveReq>>

\* Credential.updateOne({ credentialId, issuerDid }, { $set: { revocationTxHash } })
RevokeCredTx ==
  /\ revokeReq.pc = "credTx"
  /\ credentials' = [credentials EXCEPT ![revokeReq.credentialId].revocationTxHash =
                       revokeReq.tx]
  /\ cascaded' = cascaded \cup {revokeReq.credentialId}
  /\ revokeReq' = RevokeDone(200, "")
  /\ UNCHANGED <<ident, signed>>
  /\ UNCHANGED <<seekers, applications, sharedProofs, recruiters, chain,
                 requestCount, postReq, patchReq, listReq, verifyReq, approveReq>>

\* an awaited store call of the handler throws: the catch block answers 500
RevokeStoreFailure ==
  /\ revokeReq.pc \in {"mark", "seekerUpdate", "appsPull", "proofsDelete",
                       "findRecruiter", "badgeUpdate", "credTx"}
  /\ revokeReq' = RevokeDone(500, revokeReq.pc)
  /\ UNCHANGED <<ident, signed>>
  /\ UNCHANGED <<stores, postReq, patchReq, listReq, verifyReq, approveReq>>

\* the response has been sent: the handler is gone
RevokeRespond ==
  /\ revokeReq.pc = "done"
  /\ revokeReq' = IdleRevoke
  /\ UNCHANGED <<ident, signed>>
  /\ UNCHANGED <<stores, postReq, patchReq, listReq, verifyReq, approveReq>>

(***************************************************************************)
(* Sharing: POST /applications and PATCH /applications/:id/shared-vcs.     *)
(***************************************************************************)
\* Credential.find({ credentialId: { $in: ids }, subjectDid, status: "active" }).lean()
FindOwnedActive_AnyStatus(store, ids, subjectDid) ==
  {[credentialId |-> c, subjectDid |-> store[c].subjectDid,
    status |-> store[c].status, vcRaw |-> store[c].vcRaw] :
     c \in {x \in ids \cap DOMAIN store : store[x].subjectDid = subjectDid}}

FindOwnedActive(store, ids, subjectDid) ==
  {[credentialId |-> c, subjectDid |-> store[c].subjectDid,
    status |-> store[c].status, vcRaw |-> store[c].vcRaw] :
     c \in {x \in ids \cap DOMAIN store :
              store[x].subjectDid = subjectDid /\ store[x].status = "active"}}

\* byId = Map(credentialId -> doc); requested.filter((id) => byId.has(id))
ValidSelected(requested, creds) ==
  {id \in requested : \E c \in creds : c.credentialId = id}

\* a copy that leaves the proof out
deepCloneVcRawUntouched_NoProof(vcRaw) ==
  [f \in DOMAIN vcRaw \ {"proof"} |-> vcRaw[f]]

\* JSON.parse(JSON.stringify(vcRaw)): a copy with the same fields and values
deepCloneVcRawUntouched(vcRaw) == [f \in DOMAIN vcRaw |-> vcRaw[f]]

\* one insert per valid id: a record is added also when the collection holds
\* one with the same (applicationId, vcId)
BulkUpsert_Insert(store, appId, validSelected, creds) ==
  LET fresh(id) == IF <<appId, id>> \in DOMAIN store
                   THEN <<appId, id, "second">> ELSE <<appId, id>>
  IN  [k \in DOMAIN store \cup {fresh(id) : id \in validSelected} |->
         IF k \in DOMAIN store THEN store[k]
         ELSE deepCloneVcRawUntouched(
                (CHOOSE c \in creds : c.credentialId = k[2]).vcRaw)]

\* SharedProof.bulkWrite of one upsert per valid id, keyed (applicationId, vcId)
BulkUpsert(store, appId, validSelected, creds) ==
  [k \in DOMAIN store \cup {<<appId, id>> : id \in validSelected} |->
     IF k[1] = appId /\ k[2] \in validSelected
     THEN deepCloneVcRawUntouched(
            (CHOOSE c \in creds : c.credentialId = k[2]).vcRaw)
     ELSE store[k]]

PostDone(status) == [postReq EXCEPT !.pc = "done", !.status = status]

\* Application.findOne({ jobId, seekerDid }): a repeat submission answers 200
\* with alreadyApplied
PostFindExisting(seekerDid, jobId, recruiterDid, sharedVcIds) ==
  /\ postReq.pc = "idle"
  /\ CanStart
  /\ LET existing == \E a \in DOMAIN applications :
                        /\ applications[a].jobId = jobId
                        /\ applications[a].seekerDid = seekerDid
         req == [IdlePost EXCEPT !.seekerDid = seekerDid, !.jobId = jobId,
                                 !.recruiterDid = recruiterDid,
                                 !.sharedVcIds = sharedVcIds]
     IN  /\ existing \/ Cardinality(DOMAIN applications) < MaxApps
         /\ postReq' = IF existing
                       THEN [req EXCEPT !.pc = "done", !.status = 200]
                       ELSE [req EXCEPT !.pc = "create"]
  /\ UNCHANGED <<ident, signed>>
  /\ UNCHANGED <<stores, revokeReq, patchReq, listReq, verifyReq, approveReq>>

\* Application.create({ jobId, seekerDid, recruiterDid, sharedVcIds }) with the
\* ids as the client sent them
PostCreate ==
  /\ postReq.pc = "create"
  /\ LET appId == Cardinality(DOMAIN applications) + 1
     IN  /\ applications' = applications @@
               (appId :> [jobId |-> postReq.jobId, seekerDid |-> postReq.seekerDid,
                          recruiterDid |-> postReq.recruiterDid,
                          sharedVcIds |-> postReq.sharedVcIds,
                          status |-> "submitted"])
         /\ postReq' = IF postReq.sharedVcIds # {}
                       THEN [postReq EXCEPT !.pc = "readCreds", !.appId = appId]
                       ELSE [postReq EXCEPT !.pc = "done", !.appId = appId,
                                            !.status = 201]
  /\ UNCHANGED <<ident, signed>>
  /\ UNCHANGED <<credentials, seekers, sharedProofs, recruiters, chain,
                 requestCount, cascaded, revokeReq, patchReq, listReq,
                 verifyReq, approveReq>>

PostReadCreds ==
  /\ postReq.pc = "readCreds"
  /\ LET creds == FindOwnedActive(credentials, postReq.sharedVcIds, postReq.seekerDid)
         validSelected == ValidSelected(postReq.sharedVcIds, creds)
     IN  postReq' = IF validSelected # {}
                    THEN [postReq EXCEPT !.pc = "bulkWrite", !.creds = creds,
                                         !.validSelected = validSelected]
                    ELSE [postReq EXCEPT !.pc = "done", !.status = 201]
  /\ UNCHANGED <<ident, signed>>
  /\ UNCHANGED <<stores, revokeReq, patchReq, listReq, verifyReq, approveReq>>

PostBulkWrite ==
  /\ postReq.pc = "bulkWrite"
  /\ sharedProofs' = BulkUpsert(sharedProofs, postReq.appId, postReq.validSelected,
                                postReq.creds)
  /\ postReq' = [postReq EXCEPT !.pc = "setShared"]
  /\ UNCHANGED <<ident, signed>>
  /\ UNCHANGED <<credentials, seekers, applications, recruiters, chain,
                 requestCount, cascaded, revokeReq, patchReq, listReq,
                 verifyReq, approveReq>>

\* Application.findByIdAndUpdate(appDoc._id, { $set: { sharedVcIds: validSelected } })
PostSetShared ==
  /\ postReq.pc = "setShared"
  /\ applications' = [applications EXCEPT ![postReq.appId].sharedVcIds =
                        postReq.validSelected]
  /\ postReq' = PostDone(201)
  /\ UNCHANGED <<ident, signed>>
  /\ UNCHANGED <<credentials, seekers, sharedProofs, recruiters, chain,
                 requestCount, cascaded, revokeReq, patchReq, listReq,
                 verifyReq, approveReq>>

PostStoreFailure ==
  /\ postReq.pc \in {"create", "readCreds", "bulkWrite", "setShared"}
  /\ postReq' = PostDone(500)
  /\ UNCHANGED <<ident, signed>>
  /\ UNCHANGED <<stores, revokeReq, patchReq, listReq, verifyReq, approveReq>>

PostRespond ==
  /\ postReq.pc = "done"
  /\ postReq' = IdlePost
  /\ UNCHANGED <<ident, signed>>
  /\ UNCHANGED <<stores, revokeReq, patchReq, listReq, verifyReq, approveReq>>

PatchDone(status) == [patchReq EXCEPT !.pc = "done", !.status = status]

\* a load that skips the status check
PatchLoad_AnyStatus(sessionDid, appId, requested) ==
  /\ patchReq.pc = "idle"
  /\ CanStart
  /\ LET req == [IdlePatch EXCEPT !.sessionDid = sessionDid, !.appId = appId,
                                  !.requested = requested]
     IN  patchReq' =
           IF appId \notin DOMAIN applications
           THEN [req EXCEPT !.pc = "done", !.status = 404]
           ELSE IF applications[appId].seekerDid # sessionDid
           THEN [req EXCEPT !.pc = "done", !.status = 403]
           ELSE [req EXCEPT !.pc = "readCreds",
                            !.seekerDid = applications[appId].seekerDid]
  /\ UNCHANGED <<ident, signed>>
  /\ UNCHANGED <<stores, revokeReq, postReq, listReq, verifyReq, approveReq>>

\* Application.findById(id), then the owner and status checks
PatchLoad(sessionDid, appId, requested) ==
  /\ patchReq.pc = "idle"
  /\ CanStart
  /\ LET req == [IdlePatch EXCEPT !.sessionDid = sessionDid, !.appId = appId,
                                  !.requested = requested]
     IN  patchReq' =
           IF appId \notin DOMAIN applications
           THEN [req EXCEPT !.pc = "done", !.status = 404]
           ELSE IF applications[appId].seekerDid # sessionDid
           THEN [req EXCEPT !.pc = "done", !.status = 403]
           ELSE IF applications[appId].status # "submitted"
           THEN [req EXCEPT !.pc = "done", !.status = 409]
           ELSE [req EXCEPT !.pc = "readCreds",
                            !.seekerDid = applications[appId].seekerDid]
  /\ UNCHANGED <<ident, signed>>
  /\ UNCHANGED <<stores, revokeReq, postReq, listReq, verifyReq, approveReq>>

PatchReadCreds ==
  /\ patchReq.pc = "readCreds"
  /\ LET creds == FindOwnedActive(credentials, patchReq.requested, patchReq.seekerDid)
     IN  patchReq' = [patchReq EXCEPT
                        !.pc = "delete", !.creds = creds,
                        !.validSelected = ValidSelected(patchReq.requested, creds)]
  /\ UNCHANGED <<ident, signed>>
  /\ UNCHANGED <<stores, revokeReq, postReq, listReq, verifyReq, approveReq>>

\* a PATCH that deletes nothing
PatchDelete_KeepAll ==
  /\ patchReq.pc = "delete"
  /\ patchReq' = [patchReq EXCEPT !.pc =
                    IF patchReq.validSelected # {} THEN "bulkWrite" ELSE "save"]
  /\ UNCHANGED <<ident, signed>>
  /\ UNCHANGED <<stores, revokeReq, postReq, listReq, verifyReq, approveReq>>

\* SharedProof.deleteMany({ applicationId, vcId: { $nin: validSelected } })
PatchDelete ==
  /\ patchReq.pc = "delete"
  /\ sharedProofs' =
       [k \in {p \in DOMAIN sharedProofs :
                 ~(p[1] = patchReq.appId /\ p[2] \notin patchReq.validSelected)} |->
          sharedProofs[k]]
  /\ patchReq' = [patchReq EXCEPT !.pc =
                    IF patchReq.validSelected # {} THEN "bulkWrite" ELSE "save"]
  /\ UNCHANGED <<ident, signed>>
  /\ UNCHANGED <<credentials, seekers, applications, recruiters, chain,
                 requestCount, cascaded, revokeReq, postReq, listReq, verifyReq,
                 approveReq>>

PatchBulkWrite ==
  /\ patchReq.pc = "bulkWrite"
  /\ sharedProofs' = BulkUpsert(sharedProofs, patchReq.appId,
                                patchReq.validSelected, patchReq.creds)
  /\ patchReq' = [patchReq EXCEPT !.pc = "save"]
  /\ UNCHANGED <<ident, signed>>
  /\ UNCHANGED <<credentials, seekers, applications, recruiters, chain,
                 requestCount, cascaded, revokeReq, postReq, listReq, verifyReq,
                 approveReq>>

\* app.sharedVcIds = validSelected; app.save(); res.json({ ok: true, sharedVcIds })
PatchSave ==
  /\ patchReq.pc = "save"
  /\ applications' = [applications EXCEPT ![patchReq.appId].sharedVcIds =
                        patchReq.validSelected]
  /\ patchReq' = PatchDone(200)
  /\ UNCHANGED <<ident, signed>>
  /\ UNCHANGED <<credentials, seekers, sharedProofs, recruiters, chain,
                 requestCount, cascaded, revokeReq, postReq, listReq, verifyReq,
                 approveReq>>

PatchStoreFailure ==
  /\ patchReq.pc \in {"readCreds", "delete", "bulkWrite", "save"}
  /\ patchReq' = PatchDone(500)
  /\ UNCHANGED <<ident, signed>>
  /\ UNCHANGED <<stores, revokeReq, postReq, listReq, verifyReq, approveReq>>

PatchRespond ==
  /\ patchReq.pc = "done"
  /\ patchReq' = IdlePatch
  /\ UNCHANGED <<ident, signed>>
  /\ UNCHANGED <<stores, revokeReq, postReq, listReq, verifyReq, approveReq>>

ApplicationStatuses == {"submitted", "withdrawn", "shortlisted", "rejected", "hired"}

\* PATCH /applications/:id/status: Application.findById(id), 404 when absent,
\* 403 unless the session DID is the application's recruiterDid, then
\* app.status = status and app.save(), which writes the modified path only
StatusPatch(sessionDid, appId, status) ==
  /\ applications' =
       IF appId \in DOMAIN applications /\ applications[appId].recruiterDid = sessionDid
       THEN [applications EXCEPT ![appId].status = status]
       ELSE applications
  /\ UNCHANGED <<ident, signed>>
  /\ UNCHANGED <<credentials, seekers, sharedProofs, recruiters, chain,
                 requestCount, cascaded, slots>>

(***************************************************************************)
(* Reading disclosures: GET /applications/:id, GET /applications/by-job,   *)
(* POST /recruiters/verify-vc and POST /proofs/verify.                     *)
(***************************************************************************)
\* filterActiveSharedProofs: Credential.find({ credentialId: { $in: vcIds },
\* status: "active" }), then keep the proofs whose vcId is in that set.
\* A proof is named by its key <<applicationId, vcId>>.
filterActiveSharedProofs_Unfiltered(proofs, store) == proofs

filterActiveSharedProofs(proofs, store) ==
  LET vcIds == {p[2] : p \in proofs}
      activeSet == {c \in vcIds \cap DOMAIN store : store[c].status = "active"}
  IN  {p \in proofs : p[2] \in activeSet}

\* SharedProof.find({ applicationId: id }) for GET /applications/:id ("byId"),
\* SharedProof.find({ applicationId: { $in: ids of the job's applications } })
\* for GET /applications/by-job ("byJob"); the session is the application's
\* seeker or recruiter, resp. the job's owner.
ListReadProofs(route, appId, jobId) ==
  /\ listReq.pc = "idle"
  /\ CanStart
  /\ LET appIds == IF route = "byId"
                   THEN {appId} \cap DOMAIN applications
                   ELSE {a \in DOMAIN applications : applications[a].jobId = jobId}
         req == [IdleList EXCEPT !.route = route, !.appIds = appIds]
     IN  listReq' =
           IF appIds = {}
           THEN [req EXCEPT !.pc = "done",
                            !.status = IF route = "byId" THEN 404 ELSE 200]
           ELSE [req EXCEPT !.pc = "filter",
                            !.proofsRaw = {p \in DOMAIN sharedProofs : p[1] \in appIds}]
  /\ UNCHANGED <<ident, signed>>
  /\ UNCHANGED <<stores, revokeReq, postReq, patchReq, verifyReq, approveReq>>

ListFilter ==
  /\ listReq.pc = "filter"
  /\ listReq' = [listReq EXCEPT
                   !.pc = "done", !.status = 200,
                   !.proofs = filterActiveSharedProofs(listReq.proofsRaw, credentials)]
  /\ UNCHANGED <<ident, signed>>
  /\ UNCHANGED <<stores, revokeReq, postReq, patchReq, verifyReq, approveReq>>

ListStoreFailure ==
  /\ listReq.pc = "filter"
  /\ listReq' = [listReq EXCEPT !.pc = "done", !.status = 500]
  /\ UNCHANGED <<ident, signed>>
  /\ UNCHANGED <<stores, revokeReq, postReq, patchReq, verifyReq, approveReq>>

ListRespond ==
  /\ listReq.pc = "done"
  /\ listReq' = IdleList
  /\ UNCHANGED <<ident, signed>>
  /\ UNCHANGED <<stores, revokeReq, postReq, patchReq, verifyReq, approveReq>>

\* the signing authority's POST /bbs/verify-vc: it sees the document alone and
\* checks the issuer's signature over it
BbsVerifyVc(doc) == doc.proof = "BbsBlsSignature2020"

\* SharedProof.findOne({ applicationId, vcId }); 404 without a stored document.
\* On the recruiters route the session is the application's recruiter.
VerifyLoad(route, appId, vcId) ==
  /\ verifyReq.pc = "idle"
  /\ CanStart
  /\ LET req == [IdleVerify EXCEPT !.route = route, !.appId = appId, !.vcId = vcId]
     IN  verifyReq' =
           IF (route = "recruiters" /\ appId \notin DOMAIN applications)
                \/ <<appId, vcId>> \notin DOMAIN sharedProofs
           THEN [req EXCEPT !.pc = "done", !.status = 404]
           ELSE [req EXCEPT !.pc = "call", !.doc = {sharedProofs[<<appId, vcId>>]}]
  /\ UNCHANGED <<ident, signed>>
  /\ UNCHANGED <<stores, revokeReq, postReq, patchReq, listReq, approveReq>>

\* zkService.verifyVc({ vc: record.revealedDocument }); the answer is the response
VerifyCall ==
  /\ verifyReq.pc = "call"
  /\ verifyReq' = [verifyReq EXCEPT
                     !.pc = "done", !.status = 200,
                     !.valid = \A d \in verifyReq.doc : BbsVerifyVc(d)]
  /\ UNCHANGED <<ident, signed>>
  /\ UNCHANGED <<stores, revokeReq, postReq, patchReq, listReq, approveReq>>

\* the verification service cannot be reached or answers non-2xx
VerifyServiceFailure ==
  /\ verifyReq.pc = "call"
  /\ verifyReq' = [verifyReq EXCEPT !.pc = "done", !.status = 500]
  /\ UNCHANGED <<ident, signed>>
  /\ UNCHANGED <<stores, revokeReq, postReq, patchReq, listReq, approveReq>>

VerifyRespond ==
  /\ verifyReq.pc = "done"
  /\ verifyReq' = IdleVerify
  /\ UNCHANGED <<ident, signed>>
  /\ UNCHANGED <<stores, revokeReq, postReq, patchReq, listReq, approveReq>>

(***************************************************************************)
(* Seeker-side specification: issuance to seekers, sharing, revocation of  *)
(* personal credentials, listing and verification of disclosures.          *)
(***************************************************************************)
RevokePersonalSteps ==
  \/ \E c \in CredIds, i \in IssuerDids : RevokeFind(c, i)
  \/ RevokeMarkRevoked
  \/ RevokeSeekerUpdate
  \/ RevokeAppsPull
  \/ RevokeProofsDelete
  \/ RevokeRespond

RevokeSeekerSteps ==
  \/ RevokePersonalSteps
  \/ RevokeFindRecruiter
  \/ RevokeStoreFailure

PostSteps ==
  \/ \E s \in SeekerDids, j \in JobIds, r \in RecruiterDids, ids \in SUBSET ClientIds :
       PostFindExisting(s, j, r, ids)
  \/ PostCreate
  \/ PostReadCreds
  \/ PostBulkWrite
  \/ PostSetShared
  \/ PostStoreFailure
  \/ PostRespond

PatchSteps ==
  \/ \E s \in SeekerDids, a \in AppIds, ids \in SUBSET ClientIds : PatchLoad(s, a, ids)
  \/ PatchReadCreds
  \/ PatchDelete
  \/ PatchBulkWrite
  \/ PatchSave
  \/ PatchStoreFailure
  \/ PatchRespond

ReadSteps ==
  \/ \E route \in {"byId", "byJob"}, a \in AppIds, j \in JobIds :
       ListReadProofs(route, a, j)
  \/ ListFilter
  \/ ListStoreFailure
  \/ ListRespond
  \/ \E route \in {"recruiters", "proofs"}, a \in AppIds, c \in CredIds :
       VerifyLoad(route, a, c)
  \/ VerifyCall
  \/ VerifyServiceFailure
  \/ VerifyRespond

\* direct issuance, sharing into applications and revocation
NextShare ==
  \/ \E i \in IssuerDids, s \in SeekerDids, t \in CredentialTypes, c \in CredIds :
       IssueVc(i, s, t, SignedReply(c))
  \/ RevokeSeekerSteps
  \/ PostSteps
  \/ PatchSteps

SpecShare == Init /\ [][NextShare]_vars

\* the same requests with PATCH shared-vcs running on its own: no other
\* request takes a step between its first and its last
NextPatch ==
  \/ /\ patchReq.pc = "idle"
     /\ \/ \E i \in IssuerDids, s \in SeekerDids, t \in CredentialTypes, c \in CredIds :
             IssueVc(i, s, t, SignedReply(c))
        \/ RevokeSeekerSteps
        \/ PostSteps
  \/ /\ postReq.pc = "idle"
     /\ revokeReq.pc = "idle"
     /\ PatchSteps

SpecPatch == Init /\ [][NextPatch]_vars

\* sharing into applications while the recruiter moves them through review
NextEdit ==
  \/ \E i \in IssuerDids, s \in SeekerDids, t \in CredentialTypes, c \in CredIds :
       IssueVc(i, s, t, SignedReply(c))
  \/ PostSteps
  \/ PatchSteps
  \/ \E d \in RecruiterDids \cup SeekerDids, a \in AppIds, st \in ApplicationStatuses :
       StatusPatch(d, a, st)

SpecEdit == Init /\ [][NextEdit]_vars

\* issuance on request, the default disclosure set and revocation, every store
\* call succeeding
NextDefault ==
  \/ \E s \in SeekerDids, i \in IssuerDids : RequestVc(s, i)
  \/ \E s \in SeekerDids, r \in ReqIds, c \in CredIds, ok \in BOOLEAN :
       ApproveRequest(s, r, SignedReply(c), ok)
  \/ \E s \in SeekerDids, ids \in SUBSET ClientIds : ShareDefault(s, ids)
  \/ RevokePersonalSteps

SpecDefault == Init /\ [][NextDefault]_vars

\* requests filed, approved or rejected, direct issuance, revocation, and the
\* default disclosure set edited with credential ids, request ids and ids that
\* name nothing
NextMembership ==
  \/ \E s \in SeekerDids, i \in IssuerDids : RequestVc(s, i)
  \/ \E s \in SeekerDids, r \in ReqIds, c \in CredIds, ok \in BOOLEAN :
       ApproveRequest(s, r, SignedReply(c), ok)
  \/ \E i \in IssuerDids, r \in ReqIds : RejectRequest(i, r)
  \/ \E s \in SeekerDids, ids \in SUBSET (ClientIds \cup ReqIds) :
       ShareDefault(s, ids)
  \/ \E i \in IssuerDids, s \in SeekerDids, t \in CredentialTypes, c \in CredIds :
       IssueVc(i, s, t, SignedReply(c))
  \/ RevokePersonalSteps

SpecMembership == Init /\ [][NextMembership]_vars

\* sharing, revocation, and the read paths over the stored disclosures
NextRead ==
  \/ \E i \in IssuerDids, s \in SeekerDids, t \in CredentialTypes, c \in CredIds :
       IssueVc(i, s, t, SignedReply(c))
  \/ RevokeSeekerSteps
  \/ PostSteps
  \/ ReadSteps

SpecRead == Init /\ [][NextRead]_vars

(***************************************************************************)
(* Organisations: onboarding, approval (badge issue), rejection.           *)
(***************************************************************************)
\* POST /recruiters/onboarding: kycStatus = "pending", onboarded = true
RecruiterOnboarding(did) ==
  /\ recruiters' = [recruiters EXCEPT ![did].kycStatus = "pending",
                                      ![did].onboarded = TRUE]
  /\ UNCHANGED <<ident, signed>>
  /\ UNCHANGED <<credentials, seekers, applications, sharedProofs, chain,
                 requestCount, cascaded, slots>>

\* a rejection that writes the status and leaves verified as it was
RejectRecruiter_StatusOnly(did) ==
  /\ recruiters' = [recruiters EXCEPT
                      ![did].kycStatus = "rejected",
                      ![did].badge = [@ EXCEPT !.status = "Rejected"]]
  /\ UNCHANGED <<ident, signed>>
  /\ UNCHANGED <<credentials, seekers, applications, sharedProofs, chain,
                 requestCount, cascaded, slots>>

\* POST /issuer/recruiters/:id/reject: recruiter.badge = { ...recruiter.badge,
\* verified: false, status: "Rejected" }
RejectRecruiter(did) ==
  /\ recruiters' = [recruiters EXCEPT
                      ![did].kycStatus = "rejected",
                      ![did].badge = [@ EXCEPT !.verified = FALSE,
                                               !.status = "Rejected"]]
  /\ UNCHANGED <<ident, signed>>
  /\ UNCHANGED <<credentials, seekers, applications, sharedProofs, chain,
                 requestCount, cascaded, slots>>

ApproveDone(status, failedAt) ==
  [approveReq EXCEPT !.pc = "done", !.status = status, !.failedAt = failedAt]

\* POST /issuer/recruiters/:id/approve: Issuer.findOne({ did: issuerDid }), 400
\* without an Issuer record; Recruiter.findById(recruiterId), 404 without one
ApproveLoad(recruiterDid, issuerDid) ==
  /\ approveReq.pc = "idle"
  /\ CanStart
  /\ approveReq' =
       IF issuerDid \notin DOMAIN issuerDocs
       THEN [IdleApprove EXCEPT !.pc = "done", !.status = 400,
                                !.recruiterDid = recruiterDid,
                                !.issuerDid = issuerDid]
       ELSE IF recruiterDid \in DOMAIN recruiters
       THEN [IdleApprove EXCEPT !.pc = "ledger", !.recruiterDid = recruiterDid,
                                !.issuerDid = issuerDid]
       ELSE [IdleApprove EXCEPT !.pc = "done", !.status = 404,
                                !.recruiterDid = recruiterDid,
                                !.issuerDid = issuerDid]
  /\ UNCHANGED <<ident, signed>>
  /\ UNCHANGED <<stores, revokeReq, postReq, patchReq, listReq, verifyReq>>

\* contract.issueBadge(did, level); tx.wait()
issueRecruiterBadgeOnChain(ledger, did) == [ledger EXCEPT ![did] = "Active"]

\* 1) const badge = await issueRecruiterBadgeOnChain(subjectDid, 1); a rejected
\* call throws into the catch block, which answers 500
ApproveLedger_Swallowed(ok) ==
  /\ approveReq.pc = "ledger"
  /\ IF ok
     THEN /\ chain' = issueRecruiterBadgeOnChain(chain, approveReq.recruiterDid)
          /\ approveReq' = [approveReq EXCEPT !.pc = "sign", !.ledgerOk = TRUE,
                                              !.txHash = "0xissue"]
     ELSE /\ approveReq' = [approveReq EXCEPT !.pc = "sign"]
          /\ UNCHANGED chain
  /\ UNCHANGED <<ident, signed>>
  /\ UNCHANGED <<credentials, seekers, applications, sharedProofs, recruiters,
                 requestCount, cascaded, revokeReq, postReq, patchReq, listReq,
                 verifyReq>>

ApproveLedger(ok) ==
  /\ approveReq.pc = "ledger"
  /\ IF ok
     THEN /\ chain' = issueRecruiterBadgeOnChain(chain, approveReq.recruiterDid)
          /\ approveReq' = [approveReq EXCEPT !.pc = "sign", !.ledgerOk = TRUE,
                                              !.txHash = "0xissue"]
     ELSE /\ approveReq' = ApproveDone(500, "ledger")
          /\ UNCHANGED chain
  /\ UNCHANGED <<ident, signed>>
  /\ UNCHANGED <<credentials, seekers, applications, sharedProofs, recruiters,
                 requestCount, cascaded, revokeReq, postReq, patchReq, listReq,
                 verifyReq>>

\* 2) issueSimpleVc({ credentialType: "RecruiterCredential", ... }): the signing
\* exchange answers a signed document with an id, or throws
ApproveSign(x) ==
  /\ approveReq.pc = "sign"
  /\ LET ids == callBbsIssue(issuerDocs, approveReq.issuerDid, x)
     IN  approveReq' = IF ids # {}
                       THEN [approveReq EXCEPT !.pc = "create",
                                               !.vcId = CHOOSE c \in ids : TRUE]
                       ELSE ApproveDone(500, "sign")
  /\ signed' = signed \cup BbsReturned(issuerDocs, approveReq.issuerDid, x)
  /\ UNCHANGED ident
  /\ UNCHANGED <<stores, revokeReq, postReq, patchReq, listReq, verifyReq>>

\* 3) Credential.create({ credentialId: vcId, ..., onChainTxHash: badge.txHash })
ApproveCreate ==
  /\ approveReq.pc = "create"
  /\ credentials' = CredentialCreate(credentials, approveReq.vcId,
                      NewCredential(approveReq.vcId, approveReq.recruiterDid,
                                    approveReq.issuerDid, "RecruiterCredential",
                                    approveReq.txHash))
  /\ approveReq' = IF CredentialCreateOk(credentials, approveReq.vcId)
                   THEN [approveReq EXCEPT !.pc = "save"]
                   ELSE ApproveDone(500, "create")
  /\ UNCHANGED <<ident, signed>>
  /\ UNCHANGED <<seekers, applications, sharedProofs, recruiters, chain,
                 requestCount, cascaded, revokeReq, postReq, patchReq, listReq,
                 verifyReq>>

\* 4) recruiter.kycStatus = "approved"; recruiter.badge = { verified: true,
\* status: "Active", level: 1, txHash, network, credentialId }; recruiter.save()
ApprovedBadge(txHash, vcId) ==
  [verified |-> TRUE, status |-> "Active", txHash |-> txHash,
   credentialId |-> vcId, revocationTxHash |-> NoTx]

ApproveSave ==
  /\ approveReq.pc = "save"
  /\ recruiters' = [recruiters EXCEPT
                      ![approveReq.recruiterDid].kycStatus = "approved",
                      ![approveReq.recruiterDid].badge =
                         ApprovedBadge(approveReq.txHash, approveReq.vcId)]
  /\ approveReq' = ApproveDone(200, "")
  /\ UNCHANGED <<ident, signed>>
  /\ UNCHANGED <<credentials, seekers, applications, sharedProofs, chain,
                 requestCount, cascaded, revokeReq, postReq, patchReq, listReq,
                 verifyReq>>

ApproveStoreFailure ==
  /\ approveReq.pc \in {"create", "save"}
  /\ approveReq' = ApproveDone(500, approveReq.pc)
  /\ UNCHANGED <<ident, signed>>
  /\ UNCHANGED <<stores, revokeReq, postReq, patchReq, listReq, verifyReq>>

ApproveRespond ==
  /\ approveReq.pc = "done"
  /\ approveReq' = IdleApprove
  /\ UNCHANGED <<ident, signed>>
  /\ UNCHANGED <<stores, revokeReq, postReq, patchReq, listReq, verifyReq>>

ApproveSteps ==
  \/ \E r \in RecruiterDids, i \in IssuerDids : ApproveLoad(r, i)
  \/ \E ok \in BOOLEAN : ApproveLedger(ok)
  \/ \E x \in BbsExchanges : ApproveSign(x)
  \/ ApproveCreate
  \/ ApproveSave
  \/ ApproveStoreFailure
  \/ ApproveRespond

RevokeBadgeSteps ==
  \/ RevokeFindRecruiter
  \/ \E ok \in BOOLEAN : RevokeLedger(ok)
  \/ RevokeBadgeUpdate
  \/ RevokeCredTx

\* organisations: onboarding, approval, rejection and trust-credential revocation
NextBadge ==
  \/ \E r \in RecruiterDids : RecruiterOnboarding(r)
  \/ \E r \in RecruiterDids : RejectRecruiter(r)
  \/ ApproveSteps
  \/ \E c \in CredIds, i \in IssuerDids : RevokeFind(c, i)
  \/ RevokeMarkRevoked
  \/ RevokeBadgeSteps
  \/ RevokeStoreFailure
  \/ RevokeRespond

SpecBadge == Init /\ [][NextBadge]_vars

TrustCredIds == 1..MaxTrustCreds

\* an organisation approved again and again, each approval with a trust
\* credential of its own, and any of these credentials revoked
NextSupersede ==
  \/ \E r \in RecruiterDids : RecruiterOnboarding(r)
  \/ \E r \in RecruiterDids, i \in IssuerDids : ApproveLoad(r, i)
  \/ \E ok \in BOOLEAN : ApproveLedger(ok)
  \/ \E c \in TrustCredIds : ApproveSign(SignedReply(c))
  \/ ApproveCreate
  \/ ApproveSave
  \/ ApproveRespond
  \/ \E c \in TrustCredIds, i \in IssuerDids : RevokeFind(c, i)
  \/ RevokeMarkRevoked
  \/ RevokeBadgeSteps
  \/ RevokeRespond

SpecSupersede == Init /\ [][NextSupersede]_vars

\* the whole revocation cascade: credentials of either kind issued to seekers
\* and to organisations, shared into applications, re-issued and revoked
NextCascade ==
  \/ \E i \in IssuerDids, s \in SeekerDids \cup RecruiterDids,
        t \in CredentialTypes, c \in CredIds : IssueVc(i, s, t, SignedReply(c))
  \/ PostSteps
  \/ ApproveSteps
  \/ RevokePersonalSteps
  \/ RevokeBadgeSteps
  \/ RevokeStoreFailure

SpecCascade == Init /\ [][NextCascade]_vars

(***************************************************************************)
(* Sessions, users and role gates.  Every router mounts a chain of         *)
(* middleware in front of its handlers; a request runs the chain of its    *)
(* route one middleware at a time, and a middleware that awaits a store    *)
(* call twice takes two steps.                                             *)
(***************************************************************************)
Mw(name, role, allowed) == [mw |-> name, role |-> role, allowed |-> allowed]

\* routes/seekers.ts: router.use(requireSession, requireUser,
\* syncSeekerRoleFromSeekerDoc), then the handlers with their gates
SeekerChain == <<Mw("requireSession", "", {}), Mw("requireUser", "", {}),
                 Mw("sync", "seeker", {})>>

\* routes/issuer.ts: router.use(requireSession, requireUser,
\* syncIssuerRoleFromIssuerDoc), then the handlers with their gates
IssuerChain == <<Mw("requireSession", "", {}), Mw("requireUser", "", {}),
                 Mw("sync", "issuer", {})>>

Routes == {"POST /seekers/onboard", "GET /seekers/vcs", "POST /issuer/vc/revoke",
           "POST /issuer/onboard", "GET /auth/me"}

\* a chain that evaluates its gate in front of the role sync
Pipeline_GateFirst(route) ==
  CASE route = "POST /seekers/onboard" ->
         <<Mw("requireSession", "", {}), Mw("requireUser", "", {}),
           Mw("gate", "seeker", {"none", "active"}), Mw("sync", "seeker", {}),
           Mw("handler", "", {})>>
    [] route = "GET /seekers/vcs" ->
         <<Mw("requireSession", "", {}), Mw("requireUser", "", {}),
           Mw("gate", "seeker", {"active"}), Mw("sync", "seeker", {}),
           Mw("requireSeekerOnboarded", "", {}), Mw("handler", "", {})>>
    [] route = "GET /seekers/me" -> SeekerChain \o <<Mw("handler", "", {})>>
    [] route = "POST /issuer/vc/revoke" ->
         <<Mw("requireSession", "", {}), Mw("requireUser", "", {}),
           Mw("gate", "issuer", {"active"}), Mw("sync", "issuer", {}),
           Mw("handler", "", {})>>
    [] route = "POST /issuer/onboard" ->
         <<Mw("requireSession", "", {}), Mw("requireUser", "", {}),
           Mw("gate", "issuer", {"none", "active"}), Mw("sync", "issuer", {}),
           Mw("handler", "", {})>>
    [] OTHER ->
         <<Mw("requireSession", "", {}), Mw("requireUser", "", {}),
           Mw("sync", "seeker", {}), Mw("sync", "recruiter", {}),
           Mw("sync", "issuer", {}), Mw("handler", "", {})>>

\* the chain of a route, in mounting order.  The routes behind
\* router.use(requireSeekerOnboarded); router.use(requireRoleActive("seeker"))
\* stand for every seeker route mounted after these two lines, POST
\* /issuer/vc/revoke for every issuer route gated requireRoleActive("issuer").
Pipeline(route) ==
  CASE route = "POST /seekers/onboard" ->
         SeekerChain \o <<Mw("gate", "seeker", {"none", "active"}),
                          Mw("handler", "", {})>>
    [] route = "GET /seekers/vcs" ->
         SeekerChain \o <<Mw("requireSeekerOnboarded", "", {}),
                          Mw("gate", "seeker", {"active"}),
                          Mw("handler", "", {})>>
    [] route = "GET /seekers/me" -> SeekerChain \o <<Mw("handler", "", {})>>
    [] route = "POST /issuer/vc/revoke" ->
         IssuerChain \o <<Mw("gate", "issuer", {"active"}),
                          Mw("handler", "", {})>>
    [] route = "POST /issuer/onboard" ->
         IssuerChain \o <<Mw("gate", "issuer", {"none", "active"}),
                          Mw("handler", "", {})>>
    [] OTHER ->
         <<Mw("requireSession", "", {}), Mw("requireUser", "", {}),
           Mw("sync", "seeker", {}), Mw("sync", "recruiter", {}),
           Mw("sync", "issuer", {}), Mw("handler", "", {})>>

\* the middleware the request in slot k is at
Current(k) == Pipeline(httpReq[k].route)[httpReq[k].at]

At(k, name) ==
  /\ httpReq[k].pc = "run"
  /\ Current(k).mw = name

\* next(): on to the following middleware of the chain
Advance(req) == [req EXCEPT !.pc = "run", !.at = @ + 1]

HttpDone(req, status) == [req EXCEPT !.pc = "done", !.status = status]

\* a request arrives; it takes the lowest free slot
HttpStart(k, route, session) ==
  /\ httpReq[k].pc = "idle"
  /\ \A j \in HttpSlots : j < k => httpReq[j].pc # "idle"
  /\ CanStart
  /\ httpReq' = [httpReq EXCEPT ![k] =
                   [IdleHttp EXCEPT !.pc = "run", !.at = 1, !.route = route,
                                    !.session = session]]
  /\ UNCHANGED <<stores, slots, users, seekerDocs, issuerDocs, signed, aux>>

\* requireSession: 401 unless the verified payload carries a did or an email
requireSession(k) ==
  /\ At(k, "requireSession")
  /\ httpReq' = [httpReq EXCEPT ![k] =
                   IF @.session.did = NoDid /\ @.session.email = ""
                   THEN HttpDone(@, 401) ELSE Advance(@)]
  /\ UNCHANGED <<stores, slots, users, seekerDocs, issuerDocs, signed, aux>>

\* User.create({ privyUserId, ..., roles: { seeker: "none", recruiter: "none",
\* issuer: "none" } })
NewUser == [roles |-> [r \in Roles |-> "none"]]

\* requireUser: 401 without privyUserId; User.findOne({ privyUserId }), created
\* when there is none; req.user = user.  The identity refresh it saves touches
\* no role.  ok = FALSE is a store call throwing (500).
requireUser(k, ok) ==
  /\ At(k, "requireUser")
  /\ LET id == httpReq[k].session.privyUserId
         loaded == IF id \in DOMAIN users THEN users ELSE users @@ (id :> NewUser)
     IN  IF id = ""
         THEN /\ httpReq' = [httpReq EXCEPT ![k] = HttpDone(@, 401)]
              /\ UNCHANGED users
         ELSE IF ~ok
         THEN /\ httpReq' = [httpReq EXCEPT ![k] = HttpDone(@, 500)]
              /\ UNCHANGED users
         ELSE /\ users' = loaded
              /\ httpReq' = [httpReq EXCEPT ![k] =
                               Advance([@ EXCEPT !.user =
                                          {[id |-> id, roles |-> loaded[id].roles]}])]
  /\ UNCHANGED <<stores, slots, seekerDocs, issuerDocs, signed, aux>>

\* findOne returns the first matching document
FirstOf(ids) == IF ids = {} THEN {} ELSE {CHOOSE d \in ids : \A e \in ids : d <= e}

\* mustGetIdentity: did and wallet address trimmed, email trimmed and
\* lower-cased; it throws when neither did nor email is left
mustGetIdentity(session) ==
  [did |-> trim(session.did),
   email |-> toLowerCase(trim(session.email)),
   wallet_address |-> trim(session.wallet_address)]

IdentityMissing(session) ==
  mustGetIdentity(session).did = NoDid /\ mustGetIdentity(session).email = ""

\* a resolver that tries the email in front of the derived DID
findSeekerBySession_EmailFirst(docs, session) ==
  LET s == mustGetIdentity(session)
      byDid == IF s.did = NoDid THEN {}
               ELSE FirstOf({d \in DOMAIN docs : docs[d].did = s.did})
      byDerived == IF s.wallet_address # "" /\ matchesAddressPattern(s.wallet_address)
                   THEN FirstOf({d \in DOMAIN docs :
                                   docs[d].did = didPkh(toLowerCase(s.wallet_address))})
                   ELSE {}
      byEmail == IF s.email = "" THEN {}
                 ELSE FirstOf({d \in DOMAIN docs : docs[d].email = s.email})
  IN  IF byDid # {} THEN byDid
      ELSE IF byEmail # {} THEN byEmail
      ELSE byDerived

\* findSeekerBySession: 1) Seeker.findOne({ did: s.did }); 2) with a wallet
\* address of the address pattern, Seeker.findOne({ did: didPkh }) of the
\* lower-cased address; 3) Seeker.findOne({ email: s.email }); else null.
\* The result is a set of document ids, empty for null.
findSeekerBySession(docs, session) ==
  LET s == mustGetIdentity(session)
      byDid == IF s.did = NoDid THEN {}
               ELSE FirstOf({d \in DOMAIN docs : docs[d].did = s.did})
      byDerived == IF s.wallet_address # "" /\ matchesAddressPattern(s.wallet_address)
                   THEN FirstOf({d \in DOMAIN docs :
                                   docs[d].did = didPkh(toLowerCase(s.wallet_address))})
                   ELSE {}
      byEmail == IF s.email = "" THEN {}
                 ELSE FirstOf({d \in DOMAIN docs : docs[d].email = s.email})
  IN  IF byDid # {} THEN byDid
      ELSE IF byDerived # {} THEN byDerived
      ELSE byEmail

\* the lookup of syncSeekerRoleFromSeekerDoc: Seeker.findOne({ did }) with the
\* trimmed did, else Seeker.findOne({ email }) with the trimmed, lower-cased
\* email; the wallet address is not read
SyncSeekerLookup(docs, session) ==
  LET did == trim(session.did)
      email == toLowerCase(trim(session.email))
      byDid == IF did = NoDid THEN {}
               ELSE FirstOf({d \in DOMAIN docs : docs[d].did = did})
      byEmail == IF email = "" THEN {}
                 ELSE FirstOf({d \in DOMAIN docs : docs[d].email = email})
  IN  IF byDid # {} THEN byDid ELSE byEmail

\* a badge document stored without a status
NoStatus == ""

\* computeSeekerRoleState(seeker); the argument is a set: empty for null
computeSeekerRoleState(seeker) ==
  IF seeker = {} THEN "none"
  ELSE IF ~(CHOOSE s \in seeker : TRUE).onboarded THEN "none"
  ELSE "active"

\* computeIssuerRoleState(issuer)
computeIssuerRoleState(issuer) ==
  IF issuer = {} THEN "none"
  ELSE IF ~(CHOOSE i \in issuer : TRUE).onboarded THEN "none"
  ELSE "active"

\* computeRecruiterRoleState(recruiter), with the badge status taken for the
\* whole badge
computeRecruiterRoleState_BadgeOnly(recruiter) ==
  IF recruiter = {} THEN "none"
  ELSE LET r == CHOOSE x \in recruiter : TRUE
           status == IF r.badge.status = NoStatus THEN "None" ELSE r.badge.status
       IN  IF status = "Active" THEN "active"
           ELSE IF status = "Pending" THEN "pending"
           ELSE IF status \in {"Revoked", "Rejected"} THEN "rejected"
           ELSE "pending"

\* computeRecruiterRoleState(recruiter): status = recruiter.badge?.status ?? "None"
computeRecruiterRoleState(recruiter) ==
  IF recruiter = {} THEN "none"
  ELSE LET r == CHOOSE x \in recruiter : TRUE
           status == IF r.badge.status = NoStatus THEN "None" ELSE r.badge.status
       IN  IF ~r.onboarded THEN "none"
           ELSE IF status = "Active" THEN "active"
           ELSE IF status = "Pending" THEN "pending"
           ELSE IF status = "Revoked" \/ status = "Rejected" THEN "rejected"
           ELSE "pending"

\* the first half of a role sync: without req.user, next(); else read the
\* role's record and derive the desired state
SyncRead(k, doc, desired) ==
  httpReq' = [httpReq EXCEPT ![k] =
                IF @.user = {} THEN Advance(@)
                ELSE [@ EXCEPT !.pc = "syncSave", !.doc = doc, !.desired = desired]]

\* syncSeekerRoleFromSeekerDoc: Seeker.findOne({ did }).lean(), else by email
syncSeekerRoleFromSeekerDoc(k) ==
  /\ At(k, "sync")
  /\ Current(k).role = "seeker"
  /\ LET seeker == {seekerDocs[d] :
                      d \in SyncSeekerLookup(seekerDocs, httpReq[k].session)}
     IN  SyncRead(k, seeker, computeSeekerRoleState(seeker))
  /\ UNCHANGED <<stores, slots, users, seekerDocs, issuerDocs, signed, aux>>

\* syncRecruiterRoleFromRecruiterDoc: Recruiter.findOne({ did }).lean(), else by
\* contactEmail (the Recruiter documents of the model carry none)
syncRecruiterRoleFromRecruiterDoc(k) ==
  /\ At(k, "sync")
  /\ Current(k).role = "recruiter"
  /\ LET recruiter == {recruiters[d] : d \in {httpReq[k].session.did} \cap DOMAIN recruiters}
     IN  SyncRead(k, recruiter, computeRecruiterRoleState(recruiter))
  /\ UNCHANGED <<stores, slots, users, seekerDocs, issuerDocs, signed, aux>>

\* syncIssuerRoleFromIssuerDoc: Issuer.findOne({ did }).lean(), else by email
\* (the Issuer documents of the model carry none)
syncIssuerRoleFromIssuerDoc(k) ==
  /\ At(k, "sync")
  /\ Current(k).role = "issuer"
  /\ LET issuer == {issuerDocs[d] : d \in {httpReq[k].session.did} \cap DOMAIN issuerDocs}
     IN  SyncRead(k, issuer, computeIssuerRoleState(issuer))
  /\ UNCHANGED <<stores, slots, users, seekerDocs, issuerDocs, signed, aux>>

\* the user document after user.save() with the role's path modified
SaveRole_AllRoles(store, id, role, state) ==
  [store EXCEPT ![id].roles = [r \in Roles |-> state]]

SaveRole(store, id, role, state) == [store EXCEPT ![id].roles[role] = state]

\* req.user with the role set
SetRole(user, role, state) == {[u EXCEPT !.roles[role] = state] : u \in user}

\* the second half of a role sync:
\*   if (user.roles[role] !== desired) { user.roles[role] = desired; await user.save(); }
\*   return next();
\* ok = FALSE is user.save() throwing: next(e), answered 500
SyncSave(k, ok) ==
  /\ httpReq[k].pc = "syncSave"
  /\ LET req == httpReq[k]
         role == Current(k).role
         u == CHOOSE x \in req.user : TRUE
         differs == u.roles[role] # req.desired
     IN  IF differs /\ ~ok
         THEN /\ httpReq' = [httpReq EXCEPT ![k] = HttpDone(@, 500)]
              /\ UNCHANGED users
         ELSE /\ users' = IF differs THEN SaveRole(users, u.id, role, req.desired)
                          ELSE users
              /\ httpReq' = [httpReq EXCEPT ![k] =
                               Advance([@ EXCEPT
                                  !.user = SetRole(req.user, role, req.desired),
                                  !.synced = @ \cup {role},
                                  !.saved = IF differs THEN @ \cup {role} ELSE @])]
  /\ UNCHANGED <<stores, slots, seekerDocs, issuerDocs, signed, aux>>

\* requireRoleStateIn(role, allowed): current = user?.roles?.[role] ?? "none";
\* TRUE is next(), FALSE the 403 answer
requireRoleStateIn_AnyState(user, role, allowed) == "active" \in allowed

requireRoleStateIn(user, role, allowed) ==
  LET current == IF user = {} THEN "none"
                 ELSE LET u == CHOOSE x \in user : TRUE
                      IN  IF role \in DOMAIN u.roles THEN u.roles[role] ELSE "none"
  IN  current \in allowed

\* a gate of the chain: requireRoleStateIn or requireRoleActive on req.user
RoleGate(k) ==
  /\ At(k, "gate")
  /\ LET role == Current(k).role
         allowed == Current(k).allowed
         req == [httpReq[k] EXCEPT !.gate = @ \cup {[role |-> role, allowed |-> allowed]}]
     IN  httpReq' = [httpReq EXCEPT ![k] =
                      IF requireRoleStateIn(req.user, role, allowed)
                      THEN Advance(req) ELSE HttpDone(req, 403)]
  /\ UNCHANGED <<stores, slots, users, seekerDocs, issuerDocs, signed, aux>>

\* the values req.user can take at a gate: undefined, a user without roles, a
\* user with one role in any state
GateUsers ==
  {{}} \cup {{[id |-> "user:x", roles |-> <<>>]}}
    \cup {{[id |-> "user:x", roles |-> [r \in Roles |-> IF r = q THEN st ELSE "none"]]} :
            q \in Roles, st \in RoleStates}

\* requireRoleStateIn(role, allowed) applied to a request with the given
\* req.user: 403, or on to the handler
GateApply(k, user, role, allowed) ==
  /\ httpReq[k].pc = "idle"
  /\ CanStart
  /\ httpReq' = [httpReq EXCEPT ![k] =
                   HttpDone([IdleHttp EXCEPT
                               !.route = "rbac", !.user = user,
                               !.gate = {[role |-> role, allowed |-> allowed]}],
                            IF requireRoleStateIn(user, role, allowed)
                            THEN 200 ELSE 403)]
  /\ UNCHANGED <<stores, slots, users, seekerDocs, issuerDocs, signed, aux>>

\* requireSeekerOnboarded: 403 unless findSeekerBySession finds an onboarded
\* seeker; a session that leaves mustGetIdentity nothing makes it throw (500)
requireSeekerOnboarded(k) ==
  /\ At(k, "requireSeekerOnboarded")
  /\ LET found == findSeekerBySession(seekerDocs, httpReq[k].session)
     IN  httpReq' = [httpReq EXCEPT ![k] =
                      IF IdentityMissing(httpReq[k].session) THEN HttpDone(@, 500)
                      ELSE IF found = {} \/ \E d \in found : ~seekerDocs[d].onboarded
                      THEN HttpDone(@, 403) ELSE Advance(@)]
  /\ UNCHANGED <<stores, slots, users, seekerDocs, issuerDocs, signed, aux>>

\* the chain has let the request through to the route's handler
RouteHandler(k) ==
  /\ At(k, "handler")
  /\ httpReq[k].route \notin {"POST /seekers/onboard", "GET /seekers/me"}
  /\ httpReq' = [httpReq EXCEPT ![k] = HttpDone(@, 200)]
  /\ UNCHANGED <<stores, slots, users, seekerDocs, issuerDocs, signed, aux>>

\* GET /seekers/me, mounted in front of requireSeekerOnboarded: the record
\* findSeekerBySession returns is answered, 404 for null, and the catch
\* answers 500 when mustGetIdentity throws
SeekerMe(k) ==
  /\ At(k, "handler")
  /\ httpReq[k].route = "GET /seekers/me"
  /\ LET found == findSeekerBySession(seekerDocs, httpReq[k].session)
     IN  httpReq' = [httpReq EXCEPT ![k] =
                      IF IdentityMissing(httpReq[k].session) THEN HttpDone(@, 500)
                      ELSE IF found = {} THEN HttpDone(@, 404)
                      ELSE HttpDone([@ EXCEPT !.doc = found], 200)]
  /\ UNCHANGED <<stores, slots, users, seekerDocs, issuerDocs, signed, aux>>

HttpRespond(k) ==
  /\ httpReq[k].pc = "done"
  /\ httpReq' = [httpReq EXCEPT ![k] = IdleHttp]
  /\ UNCHANGED <<stores, slots, users, seekerDocs, issuerDocs, signed, aux>>

(***************************************************************************)
(* POST /seekers/onboard.                                                  *)
(***************************************************************************)
\* a derivation that takes the wallet address as it is written
deriveDidFromSession_KeepCase(session) ==
  LET sDid == trim(session.did)
      w == trim(session.wallet_address)
  IN  IF sDid # NoDid /\ startsWithDidPkh(sDid) THEN sDid
      ELSE IF w # "" /\ matchesAddressPattern(w) THEN didPkh(w)
      ELSE sDid

\* deriveDidFromSession: the trimmed session did when it starts with did:pkh:,
\* else the did:pkh of the lower-cased wallet address when that has the form
\* of an address, else the trimmed session did; NoDid stands for undefined
deriveDidFromSession(session) ==
  LET sDid == trim(session.did)
      w == trim(session.wallet_address)
  IN  IF sDid # NoDid /\ startsWithDidPkh(sDid) THEN sDid
      ELSE IF w # "" /\ matchesAddressPattern(w) THEN didPkh(toLowerCase(w))
      ELSE sDid

\* didToStore.match(/0x[a-fA-F0-9]{40}/): the seeker DIDs of the model stand
\* for did:pkh DIDs, which end in the wallet address
addressMatch(did) == did \in SeekerDids \cup {"did:pkh:0xA1"}

\* const session = mustGetIdentity(req), which throws into the catch when the
\* claim has neither did nor email; let doc = await findSeekerBySession(req),
\* read into the handler; the body carries a name and the onboarded flag
OnboardFind(k, onboarded) ==
  /\ At(k, "handler")
  /\ httpReq[k].route = "POST /seekers/onboard"
  /\ LET found == findSeekerBySession(seekerDocs, httpReq[k].session)
         didToStore == deriveDidFromSession(httpReq[k].session)
         assigns == didToStore # NoDid /\ \A d \in found : seekerDocs[d].did = NoDid
     IN  httpReq' = [httpReq EXCEPT ![k] =
                   IF IdentityMissing(httpReq[k].session) THEN HttpDone(@, 500)
                   ELSE
                   [@ EXCEPT !.pc = IF /\ assigns
                                       /\ addressMatch(didToStore)
                                       /\ env.DID_REGISTRY_ADDRESS
                                    THEN "onboardRegister" ELSE "onboardSave",
                             !.onboarded = onboarded,
                             !.doc = {[id |-> d, did |-> seekerDocs[d].did,
                                       onboarded |-> seekerDocs[d].onboarded] :
                                        d \in found}]]
  /\ UNCHANGED <<stores, slots, users, seekerDocs, issuerDocs, signed, aux>>

\* registry.registerDID(did, docHash) and tx.wait()
registerDidOnChain(registry, did) == registry \cup {did}

\* a failed registration goes to the handler's catch block
OnboardRegister_Rethrow(k, ok) ==
  /\ httpReq[k].pc = "onboardRegister"
  /\ IF ok
     THEN /\ didRegistry' = registerDidOnChain(didRegistry,
                                               deriveDidFromSession(httpReq[k].session))
          /\ httpReq' = [httpReq EXCEPT ![k] =
                           [@ EXCEPT !.pc = "onboardSave", !.didTx = "0xdid"]]
     ELSE /\ UNCHANGED didRegistry
          /\ httpReq' = [httpReq EXCEPT ![k] = HttpDone(@, 500)]
  /\ UNCHANGED <<stores, slots, users, seekerDocs, issuerDocs, signed,
                 env, jobs, jobReq, issuerKeys, keyReq, signedWith, grantReq, applyReq>>

\* the best-effort registration of a newly assigned DID, in a try / catch of
\* its own: the transaction hash is put on the document in memory (the schema
\* has no such path, it is not saved), a failure is logged and swallowed
OnboardRegister(k, ok) ==
  /\ httpReq[k].pc = "onboardRegister"
  /\ IF ok
     THEN /\ didRegistry' = registerDidOnChain(didRegistry,
                                               deriveDidFromSession(httpReq[k].session))
          /\ httpReq' = [httpReq EXCEPT ![k] =
                           [@ EXCEPT !.pc = "onboardSave", !.didTx = "0xdid"]]
     ELSE /\ UNCHANGED didRegistry
          /\ httpReq' = [httpReq EXCEPT ![k] = [@ EXCEPT !.pc = "onboardSave"]]
  /\ UNCHANGED <<stores, slots, users, seekerDocs, issuerDocs, signed,
                 env, jobs, jobReq, issuerKeys, keyReq, signedWith, grantReq, applyReq>>

\* if (didToStore && !doc.did) doc.did = didToStore, on the document as read
AssignDid(docDid, didToStore) ==
  IF didToStore # NoDid /\ docDid = NoDid THEN didToStore ELSE docDid

\* a Seeker collection without the index on did
DidTaken_NoIndex(docs, id, did) == FALSE

\* the unique sparse index on Seeker.did: another document holds the DID
DidTaken(docs, id, did) ==
  did # NoDid /\ \E d \in DOMAIN docs : d # id /\ docs[d].did = did

\* doc.save(): an insert of the new document, or an update of the paths the
\* handler modified on the document it read.  A duplicate DID is answered 409,
\* any other failure (ok = FALSE, or a new document without email) 500.
OnboardSave(k, ok) ==
  /\ httpReq[k].pc = "onboardSave"
  /\ LET req == httpReq[k]
         didToStore == deriveDidFromSession(req.session)
     IN  IF req.doc = {}
         THEN \E id \in SeekerDocIds :
                /\ id \notin DOMAIN seekerDocs
                /\ \A j \in SeekerDocIds : j < id => j \in DOMAIN seekerDocs
                /\ IF ~ok \/ mustGetIdentity(req.session).email = ""
                   THEN /\ httpReq' = [httpReq EXCEPT ![k] = HttpDone(@, 500)]
                        /\ UNCHANGED seekerDocs
                   ELSE IF DidTaken(seekerDocs, id, AssignDid(NoDid, didToStore))
                   THEN /\ httpReq' = [httpReq EXCEPT ![k] = HttpDone(@, 409)]
                        /\ UNCHANGED seekerDocs
                   ELSE /\ seekerDocs' = seekerDocs @@
                             (id :> SeekerDoc(mustGetIdentity(req.session).email,
                                              AssignDid(NoDid, didToStore),
                                              req.onboarded))
                        /\ httpReq' = [httpReq EXCEPT ![k] =
                                         [@ EXCEPT !.pc = "onboardUserSave",
                                                   !.onboarded = req.onboarded]]
         ELSE LET doc == CHOOSE d \in req.doc : TRUE
                  did == AssignDid(doc.did, didToStore)
                  onboarded == doc.onboarded \/ req.onboarded
              IN  IF ~ok
                  THEN /\ httpReq' = [httpReq EXCEPT ![k] = HttpDone(@, 500)]
                       /\ UNCHANGED seekerDocs
                  ELSE IF did # doc.did /\ DidTaken(seekerDocs, doc.id, did)
                  THEN /\ httpReq' = [httpReq EXCEPT ![k] = HttpDone(@, 409)]
                       /\ UNCHANGED seekerDocs
                  ELSE /\ seekerDocs' =
                            [seekerDocs EXCEPT
                               ![doc.id].did = IF did # doc.did THEN did ELSE @,
                               ![doc.id].onboarded =
                                  IF onboarded # doc.onboarded THEN onboarded ELSE @]
                       /\ httpReq' = [httpReq EXCEPT ![k] =
                                        [@ EXCEPT !.pc = "onboardUserSave",
                                                  !.onboarded = onboarded]]
  /\ UNCHANGED <<stores, slots, users, issuerDocs, signed, aux>>

\* req.user.roles.seeker = doc.onboarded ? "active" : "none"; await
\* req.user.save(); then the 200 answer
OnboardUserSave(k, ok) ==
  /\ httpReq[k].pc = "onboardUserSave"
  /\ LET req == httpReq[k]
         u == CHOOSE x \in req.user : TRUE
         state == IF req.onboarded THEN "active" ELSE "none"
     IN  IF ~ok
         THEN /\ httpReq' = [httpReq EXCEPT ![k] = HttpDone(@, 500)]
              /\ UNCHANGED users
         ELSE /\ users' = IF u.roles.seeker # state
                          THEN SaveRole(users, u.id, "seeker", state) ELSE users
              /\ httpReq' = [httpReq EXCEPT ![k] =
                               HttpDone([@ EXCEPT !.user = SetRole(req.user, "seeker", state)],
                                        200)]
  /\ UNCHANGED <<stores, slots, seekerDocs, issuerDocs, signed, aux>>

(***************************************************************************)
(* Specifications of the middleware, of onboarding and of issuance.        *)
(***************************************************************************)
HttpSteps(k) ==
  \/ requireSession(k)
  \/ \E ok \in BOOLEAN : requireUser(k, ok)
  \/ \E ok \in BOOLEAN : SyncSave(k, ok)
  \/ HttpRespond(k)

OnboardSteps(k) ==
  \/ \E onboarded \in BOOLEAN : OnboardFind(k, onboarded)
  \/ \E ok \in BOOLEAN : OnboardSave(k, ok)
  \/ \E ok \in BOOLEAN : OnboardUserSave(k, ok)

\* the Recruiter documents the schema admits, as far as the role derivation
\* and the badge handlers read them
RecruiterDocs ==
  {[onboarded |-> o, kycStatus |-> kyc,
    badge |-> [verified |-> v, status |-> st, txHash |-> NoTx,
               credentialId |-> 0, revocationTxHash |-> NoTx]] :
     o \in BOOLEAN, kyc \in {"none", "pending", "approved", "rejected"},
     v \in BOOLEAN,
     st \in {NoStatus, "None", "Pending", "Active", "Revoked", "Rejected"}}

\* the cached role states of a User document that has not signed in as an
\* organisation: seeker and issuer are written none or active only
UserRoles ==
  {r \in [Roles -> RoleStates] :
     /\ r["seeker"] \in {"none", "active"}
     /\ r["issuer"] \in {"none", "active"}
     /\ r["recruiter"] = "none"}

\* any records behind one session of each kind; no user has signed in yet
InitRoles ==
  /\ credentials = <<>>
  /\ seekers = <<>>
  /\ applications = <<>>
  /\ sharedProofs = <<>>
  /\ recruiters \in {<<>>} \cup {[r \in RecruiterDids |-> d] : d \in RecruiterDocs}
  /\ chain = [r \in RecruiterDids |-> "None"]
  /\ requestCount = 0
  /\ cascaded = {}
  /\ users = <<>>
  /\ seekerDocs \in {<<>>} \cup {(1 :> SeekerDoc("seeker@x", "did:seeker:1", b)) :
                                   b \in BOOLEAN}
  /\ issuerDocs \in {<<>>} \cup {("did:issuer:1" :> [onboarded |-> b]) : b \in BOOLEAN}
  /\ signed = {}
  /\ env = DefaultEnv
  /\ NoJobsNoKeys
  /\ NoRequests

\* GET /auth/me, which runs the three role syncs, one request at a time
NextRoles ==
  \/ \E s \in {SeekerWallet1, RecruiterSession, IssuerSession} :
       HttpStart(1, "GET /auth/me", s)
  \/ HttpSteps(1)
  \/ syncSeekerRoleFromSeekerDoc(1)
  \/ syncRecruiterRoleFromRecruiterDoc(1)
  \/ syncIssuerRoleFromIssuerDoc(1)
  \/ RouteHandler(1)

SpecRoles == InitRoles /\ [][NextRoles]_vars

\* any seeker and issuer record behind the sessions, any cached role states
InitGates ==
  /\ credentials = <<>>
  /\ seekers = <<>>
  /\ applications = <<>>
  /\ sharedProofs = <<>>
  /\ recruiters = [r \in RecruiterDids |-> NewRecruiter]
  /\ chain = [r \in RecruiterDids |-> "None"]
  /\ requestCount = 0
  /\ cascaded = {}
  /\ users \in {[u \in {"user:seeker", "user:issuer"} |-> [roles |-> r]] :
                  r \in UserRoles}
  /\ seekerDocs \in {<<>>} \cup {(1 :> SeekerDoc("seeker@x", "did:seeker:1", b)) :
                                   b \in BOOLEAN}
  /\ issuerDocs \in {<<>>} \cup {("did:issuer:1" :> [onboarded |-> b]) : b \in BOOLEAN}
  /\ signed = {}
  /\ env = DefaultEnv
  /\ NoJobsNoKeys
  /\ NoRequests

\* one request at a time through the chain of any route, and the gate applied
\* to any req.user
NextGates ==
  \/ \E route \in Routes, s \in {SeekerWallet1, IssuerSession, NoSession} :
       HttpStart(1, route, s)
  \/ HttpSteps(1)
  \/ syncSeekerRoleFromSeekerDoc(1)
  \/ syncRecruiterRoleFromRecruiterDoc(1)
  \/ syncIssuerRoleFromIssuerDoc(1)
  \/ RoleGate(1)
  \/ requireSeekerOnboarded(1)
  \/ RouteHandler(1)
  \/ OnboardSteps(1)
  \/ \E user \in GateUsers, role \in Roles,
        allowed \in {{"active"}, {"none", "active"}} :
       GateApply(1, user, role, allowed)

SpecGates == InitGates /\ [][NextGates]_vars

\* verified session claims of one user: any combination of a DID, an email and
\* a wallet address, written as the holder's record has them or otherwise
ClaimDids == {NoDid, "did:seeker:1", "did:privy:1", " did:privy:1 "}
ClaimEmails == {"", "seeker@x", " Seeker@X ", "other@x"}
ClaimWallets == {"", "0xA1", "0xa2", "0xZZ"}
ClaimSessions ==
  {WalletSession("user:seeker", e, d, w) :
     e \in ClaimEmails, d \in ClaimDids, w \in ClaimWallets}

\* one holder on file, onboarded or not, with the did:pkh DID of wallet 0xa1
InitResolve ==
  /\ credentials = <<>>
  /\ seekers = <<>>
  /\ applications = <<>>
  /\ sharedProofs = <<>>
  /\ recruiters = <<>>
  /\ chain = <<>>
  /\ requestCount = 0
  /\ cascaded = {}
  /\ users = <<>>
  /\ seekerDocs \in {(1 :> SeekerDoc("seeker@x", "did:seeker:1", b)) :
                        b \in BOOLEAN}
  /\ issuerDocs = <<>>
  /\ signed = {}
  /\ env = DefaultEnv
  /\ NoJobsNoKeys
  /\ NoRequests

\* requests to a seeker route behind requireSeekerOnboarded and the seeker
\* gate, one at a time, under any session claim
NextResolve ==
  \/ \E s \in ClaimSessions : HttpStart(1, "GET /seekers/vcs", s)
  \/ HttpSteps(1)
  \/ syncSeekerRoleFromSeekerDoc(1)
  \/ requireSeekerOnboarded(1)
  \/ RoleGate(1)
  \/ RouteHandler(1)

SpecResolve == InitResolve /\ [][NextResolve]_vars

\* session claims whose DID, wallet address and email can each name a
\* different holder, or none
LookupSessions ==
  {WalletSession("user:seeker", e, d, w) :
     e \in {"", "seeker@x", " Seeker@X "},
     d \in {NoDid, " ", "did:privy:1", " did:privy:1 "},
     w \in {"", "0xA1", "0xZZ"}}

\* three holders: one onboarded under a provider DID, one under the did:pkh of
\* wallet 0xa1, one by email alone
LookupHolders ==
  <<SeekerDoc("first@x", "did:privy:1", TRUE),
    SeekerDoc("second@x", "did:seeker:1", TRUE),
    SeekerDoc("seeker@x", NoDid, TRUE)>>

\* any of the three holders on file, stored in either order
InitLookup ==
  /\ credentials = <<>>
  /\ seekers = <<>>
  /\ applications = <<>>
  /\ sharedProofs = <<>>
  /\ recruiters = <<>>
  /\ chain = <<>>
  /\ requestCount = 0
  /\ cascaded = {}
  /\ users = <<>>
  /\ \E present \in SUBSET {1, 2, 3}, reversed \in BOOLEAN :
       seekerDocs = [d \in present |->
                       LookupHolders[IF reversed THEN 4 - d ELSE d]]
  /\ issuerDocs = <<>>
  /\ signed = {}
  /\ env = DefaultEnv
  /\ NoJobsNoKeys
  /\ NoRequests

\* GET /seekers/me requests, one at a time, under any session claim
NextLookup ==
  \/ \E s \in LookupSessions : HttpStart(1, "GET /seekers/me", s)
  \/ HttpSteps(1)
  \/ syncSeekerRoleFromSeekerDoc(1)
  \/ SeekerMe(1)

SpecLookup == InitLookup /\ [][NextLookup]_vars

\* an organisation's life (onboarding, approval, rejection, revocation of its
\* trust credential) with GET /auth/me requests of its session in between
NextTrust ==
  \/ \E r \in RecruiterDids : RecruiterOnboarding(r)
  \/ ApproveSteps
  \/ \E c \in CredIds, i \in IssuerDids : RevokeFind(c, i)
  \/ RevokeMarkRevoked
  \/ RevokeBadgeSteps
  \/ RevokeStoreFailure
  \/ RevokeRespond
  \/ HttpStart(1, "GET /auth/me", RecruiterSession)
  \/ HttpSteps(1)
  \/ syncSeekerRoleFromSeekerDoc(1)
  \/ syncRecruiterRoleFromRecruiterDoc(1)
  \/ syncIssuerRoleFromIssuerDoc(1)
  \/ RouteHandler(1)

SpecTrust == Init /\ [][NextTrust]_vars

\* concurrent requests of one organisation's session while its record changes
NextSync ==
  \/ \E r \in RecruiterDids : RecruiterOnboarding(r)
  \/ \E r \in RecruiterDids : RejectRecruiter(r)
  \/ \E k \in HttpSlots :
       \/ HttpStart(k, "GET /auth/me", RecruiterSession)
       \/ HttpSteps(k)
       \/ syncSeekerRoleFromSeekerDoc(k)
       \/ syncRecruiterRoleFromRecruiterDoc(k)
       \/ syncIssuerRoleFromIssuerDoc(k)
       \/ RouteHandler(k)

SpecSync == Init /\ [][NextSync]_vars

\* no Seeker document, or one that was stored without a DID
InitOnboard ==
  /\ credentials = <<>>
  /\ seekers = <<>>
  /\ applications = <<>>
  /\ sharedProofs = <<>>
  /\ recruiters = <<>>
  /\ chain = <<>>
  /\ requestCount = 0
  /\ cascaded = {}
  /\ users = <<>>
  /\ seekerDocs \in {<<>>, (1 :> SeekerDoc("seeker@x", NoDid, FALSE))}
  /\ issuerDocs = <<>>
  /\ signed = {}
  /\ env = DefaultEnv
  /\ NoJobsNoKeys
  /\ NoRequests

\* concurrent POST /seekers/onboard requests of one holder under its sessions
NextOnboard ==
  \E k \in HttpSlots :
    \/ \E s \in {SeekerByEmail, SeekerWallet1, SeekerWallet2} :
         HttpStart(k, "POST /seekers/onboard", s)
    \/ HttpSteps(k)
    \/ syncSeekerRoleFromSeekerDoc(k)
    \/ RoleGate(k)
    \/ OnboardSteps(k)

SpecOnboard == InitOnboard /\ [][NextOnboard]_vars

\* session claims of holders not yet on file: a DID that is a did:pkh, a
\* provider DID or absent, with a wallet address that has the form of an
\* address or not
AssignSessions ==
  {WalletSession("user:seeker", e, d, w) :
     e \in {"", "seeker@x", " Seeker@X "},
     d \in {NoDid, "did:privy:1", " did:privy:1 ", "did:pkh:0xA1", "did:seeker:2"},
     w \in {"", "0xA1", "0xa2", "0xZZ"}}

\* POST /seekers/onboard requests, one at a time, under any session claim,
\* starting from an empty Seeker collection
NextAssign ==
  \/ \E s \in AssignSessions : HttpStart(1, "POST /seekers/onboard", s)
  \/ HttpSteps(1)
  \/ syncSeekerRoleFromSeekerDoc(1)
  \/ RoleGate(1)
  \/ OnboardSteps(1)

SpecAssign == InitOnboard /\ [][NextAssign]_vars

\* the same with the DID registry configured
InitRegister ==
  /\ credentials = <<>>
  /\ seekers = <<>>
  /\ applications = <<>>
  /\ sharedProofs = <<>>
  /\ recruiters = <<>>
  /\ chain = <<>>
  /\ requestCount = 0
  /\ cascaded = {}
  /\ users = <<>>
  /\ seekerDocs \in {<<>>, (1 :> SeekerDoc("seeker@x", NoDid, FALSE))}
  /\ issuerDocs = <<>>
  /\ signed = {}
  /\ env = [DefaultEnv EXCEPT !.DID_REGISTRY_ADDRESS = TRUE]
  /\ NoJobsNoKeys
  /\ NoRequests

NextRegister ==
  \E k \in HttpSlots :
    \/ \E s \in {SeekerByEmail, SeekerWallet1} :
         HttpStart(k, "POST /seekers/onboard", s)
    \/ HttpSteps(k)
    \/ syncSeekerRoleFromSeekerDoc(k)
    \/ RoleGate(k)
    \/ OnboardSteps(k)
    \/ \E ok \in BOOLEAN : OnboardRegister(k, ok)

SpecRegister == InitRegister /\ [][NextRegister]_vars

\* one of the two issuer DIDs has no Issuer record
InitIssue ==
  /\ credentials = <<>>
  /\ seekers = [s \in SeekerDids |-> NewSeeker]
  /\ applications = <<>>
  /\ sharedProofs = <<>>
  /\ recruiters = [r \in RecruiterDids |-> NewRecruiter]
  /\ chain = [r \in RecruiterDids |-> "None"]
  /\ requestCount = 0
  /\ cascaded = {}
  /\ users = <<>>
  /\ seekerDocs = (1 :> SeekerDoc("seeker1@x", "did:seeker:1", TRUE))
                    @@ (2 :> SeekerDoc("seeker2@x", "did:seeker:2", TRUE))
  /\ issuerDocs = ("did:issuer:1" :> [onboarded |-> TRUE])
  /\ signed = {}
  /\ env = DefaultEnv
  /\ NoJobsNoKeys
  /\ NoRequests

\* the three ways of issuing a credential, interleaved, with every outcome of
\* the signing exchange
NextIssue ==
  \/ \E i \in IssuerDids, s \in SeekerDids, t \in CredentialTypes, x \in BbsExchanges :
       IssueVc(i, s, t, x)
  \/ \E s \in SeekerDids, i \in IssuerDids : RequestVc(s, i)
  \/ \E s \in SeekerDids, r \in ReqIds, x \in BbsExchanges, ok \in BOOLEAN :
       ApproveRequest(s, r, x, ok)
  \/ ApproveSteps

SpecIssue == InitIssue /\ [][NextIssue]_vars

(***************************************************************************)
(* Jobs: POST /jobs stores the trust status computed at creation; the read *)
(* paths present a job from the stored document and the owner's Recruiter  *)
(* record.                                                                 *)
(***************************************************************************)
notJobs == <<stores, slots, users, seekerDocs, issuerDocs, signed, httpReq,
             env, didRegistry, issuerKeys, keyReq, signedWith, grantReq, applyReq>>

\* the organisations whose badge reads revoked
RevokedOrgs(store) ==
  {r \in DOMAIN store : store[r].badge.status = "Revoked" /\ ~store[r].badge.verified}

\* getBadge(did) mapped onto the four statuses (level 0: no badge); any error
\* reaching the ledger is caught and answered "None"
getRecruiterTrustStatusFromChain(ledger, did, reachable) ==
  IF ~reachable THEN "None"
  ELSE IF did \notin DOMAIN ledger THEN "None"
  ELSE IF ledger[did] \in {"Active", "Suspended", "Revoked"} THEN ledger[did]
  ELSE "None"

\* the ledger when TRUST_BADGE_REGISTRY_ADDR is set, else recruiter.badge.verified
computeTrustStatusForJob(environment, ledger, store, didOwner, reachable) ==
  IF environment.TRUST_BADGE_REGISTRY_ADDR
  THEN getRecruiterTrustStatusFromChain(ledger, didOwner, reachable)
  ELSE IF didOwner \in DOMAIN store /\ store[didOwner].badge.verified
  THEN "Active" ELSE "None"

\* POST /jobs: const trustStatus = await computeTrustStatusForJob(didOwner);
\* didOwner and verified are fields of the body
JobPost(didOwner, verified, reachable) ==
  /\ jobReq.pc = "idle"
  /\ CanStart
  /\ DOMAIN jobs # JobIds
  /\ jobReq' = [IdleJob EXCEPT
                  !.pc = "create", !.route = "POST /jobs",
                  !.didOwner = didOwner, !.verified = verified,
                  !.ledgerOk = reachable \/ ~env.TRUST_BADGE_REGISTRY_ADDR,
                  !.revokedAtStart = RevokedOrgs(recruiters),
                  !.trustStatus = computeTrustStatusForJob(env, chain, recruiters,
                                                           didOwner, reachable)]
  /\ UNCHANGED <<notJobs, jobs>>

\* toJobDTO(doc): verified: doc.verified, trustStatus: doc.trustStatus ?? "None"
toJobDTO(doc) ==
  [verified |-> doc.verified,
   trustStatus |-> IF doc.trustStatus = "" THEN "None" ELSE doc.trustStatus]

\* Job.create({ ..., didOwner, verified, trustStatus, ... }), 201; 500 on a throw
JobCreate(ok) ==
  /\ jobReq.pc = "create"
  /\ IF ok
     THEN LET id == CHOOSE j \in JobIds : j \notin DOMAIN jobs
              doc == [didOwner |-> jobReq.didOwner, verified |-> jobReq.verified,
                      trustStatus |-> jobReq.trustStatus]
          IN  /\ jobs' = jobs @@ (id :> doc)
              /\ jobReq' = [jobReq EXCEPT !.pc = "done", !.status = 201,
                                          !.jobId = id,
                                          !.view = (id :> toJobDTO(doc))]
     ELSE /\ jobReq' = [jobReq EXCEPT !.pc = "done", !.status = 500]
          /\ UNCHANGED jobs
  /\ UNCHANGED notJobs

\* GET /jobs/:id: Job.findById(id), answered with toJobDTO(job)
JobGet(id) ==
  /\ jobReq.pc = "idle"
  /\ CanStart
  /\ jobReq' =
       IF id \in DOMAIN jobs
       THEN [IdleJob EXCEPT !.pc = "done", !.route = "GET /jobs/:id",
                            !.jobId = id, !.status = 200,
                            !.revokedAtStart = RevokedOrgs(recruiters),
                            !.view = (id :> toJobDTO(jobs[id]))]
       ELSE [IdleJob EXCEPT !.pc = "done", !.route = "GET /jobs/:id",
                            !.jobId = id, !.status = 404]
  /\ UNCHANGED <<notJobs, jobs>>

\* GET /jobs: const docs = await Job.find(filter)
JobListFind ==
  /\ jobReq.pc = "idle"
  /\ CanStart
  /\ jobReq' = [IdleJob EXCEPT !.pc = "attach", !.route = "GET /jobs",
                               !.revokedAtStart = RevokedOrgs(recruiters),
                               !.docs = jobs]
  /\ UNCHANGED <<notJobs, jobs>>

\* attachRecruiterMeta: verified and trustStatus of a job whose owner has a
\* Recruiter record are replaced, on the document in memory, by what the
\* record says
attachRecruiterMeta(docs, store) ==
  [j \in DOMAIN docs |->
     IF docs[j].didOwner \in DOMAIN store
     THEN LET rec == store[docs[j].didOwner]
          IN  IF rec.kycStatus = "approved" /\ rec.badge.verified
              THEN [verified |-> TRUE, trustStatus |-> "Active"]
              ELSE IF rec.kycStatus = "pending"
              THEN [verified |-> FALSE, trustStatus |-> "Suspended"]
              ELSE IF rec.kycStatus = "rejected"
              THEN [verified |-> FALSE, trustStatus |-> "Revoked"]
              ELSE [verified |-> FALSE, trustStatus |-> "None"]
     ELSE toJobDTO(docs[j])]

\* let jobs = await attachRecruiterMeta(docs): Recruiter.find({ did: { $in } })
JobListAttach ==
  /\ jobReq.pc = "attach"
  /\ jobReq' = [jobReq EXCEPT !.pc = "done", !.status = 200,
                              !.view = attachRecruiterMeta(jobReq.docs, recruiters)]
  /\ UNCHANGED <<notJobs, jobs>>

\* GET /applications/:id, the job of the answer: Application.findById(id), 404
\* without one, then Recruiter.findOne({ did: app.recruiterDid })
AppJobRecruiter(appId) ==
  /\ jobReq.pc = "idle"
  /\ CanStart
  /\ jobReq' =
       IF appId \in DOMAIN applications
       THEN [IdleJob EXCEPT
               !.pc = "appJob", !.route = "GET /applications/:id",
               !.jobId = applications[appId].jobId,
               !.revokedAtStart = RevokedOrgs(recruiters),
               !.rec = {recruiters[r] :
                         r \in {applications[appId].recruiterDid} \cap DOMAIN recruiters}]
       ELSE [IdleJob EXCEPT !.pc = "done", !.route = "GET /applications/:id",
                            !.status = 404]
  /\ UNCHANGED <<notJobs, jobs>>

\* derivedTrustStatus / derivedVerified: from the recruiter's kycStatus and
\* badge.verified, else from the job document
derivedTrustStatus(rec, job) ==
  IF \E r \in rec : r.kycStatus = "rejected"
  THEN [verified |-> FALSE, trustStatus |-> "Revoked"]
  ELSE IF \E r \in rec : r.kycStatus = "pending"
  THEN [verified |-> FALSE, trustStatus |-> "Suspended"]
  ELSE IF \E r \in rec : r.badge.verified
  THEN [verified |-> TRUE, trustStatus |-> "Active"]
  ELSE toJobDTO(job)

\* const job = await Job.findById(app.jobId); the answer embeds the job, if
\* there is one, with the derived values
AppJobRead ==
  /\ jobReq.pc = "appJob"
  /\ jobReq' = [jobReq EXCEPT
                  !.pc = "done", !.status = 200,
                  !.view = [j \in {jobReq.jobId} \cap DOMAIN jobs |->
                              derivedTrustStatus(jobReq.rec, jobs[j])]]
  /\ UNCHANGED <<notJobs, jobs>>

JobRespond ==
  /\ jobReq.pc = "done"
  /\ jobReq' = IdleJob
  /\ UNCHANGED <<notJobs, jobs>>

JobSteps ==
  \/ \E r \in RecruiterDids, verified \in BOOLEAN, reachable \in BOOLEAN :
       JobPost(r, verified, reachable)
  \/ \E ok \in BOOLEAN : JobCreate(ok)
  \/ \E j \in JobIds : JobGet(j)
  \/ JobListFind
  \/ JobListAttach
  \/ \E a \in AppIds : AppJobRecruiter(a)
  \/ AppJobRead
  \/ JobRespond

\* an application to the job is on file
InitJobs ==
  /\ credentials = <<>>
  /\ seekers = [s \in SeekerDids |-> NewSeeker]
  /\ applications = (1 :> [jobId |-> "job1", seekerDid |-> "did:seeker:1",
                           recruiterDid |-> "did:recruiter:1",
                           sharedVcIds |-> {}, status |-> "submitted"])
  /\ sharedProofs = <<>>
  /\ recruiters = [r \in RecruiterDids |-> NewRecruiter]
  /\ chain = [r \in RecruiterDids |-> "None"]
  /\ requestCount = 0
  /\ cascaded = {}
  /\ users = <<>>
  /\ seekerDocs = (1 :> SeekerDoc("seeker1@x", "did:seeker:1", TRUE))
                    @@ (2 :> SeekerDoc("seeker2@x", "did:seeker:2", TRUE))
  /\ issuerDocs = [i \in IssuerDids |-> [onboarded |-> TRUE]]
  /\ signed = {}
  /\ env \in {DefaultEnv, [DefaultEnv EXCEPT !.TRUST_BADGE_REGISTRY_ADDR = FALSE]}
  /\ NoJobsNoKeys
  /\ NoRequests

\* organisations are approved and their trust credential revoked while jobs
\* are posted and read
NextJobs ==
  \/ \E r \in RecruiterDids : RecruiterOnboarding(r)
  \/ \E r \in RecruiterDids, i \in {"did:issuer:1"} : ApproveLoad(r, i)
  \/ ApproveLedger(TRUE)
  \/ ApproveSign(SignedReply(1))
  \/ ApproveCreate
  \/ ApproveSave
  \/ ApproveRespond
  \/ \E c \in CredIds : RevokeFind(c, "did:issuer:1")
  \/ RevokeMarkRevoked
  \/ RevokeFindRecruiter
  \/ RevokeLedger(TRUE)
  \/ RevokeBadgeUpdate
  \/ RevokeCredTx
  \/ RevokeRespond
  \/ JobSteps

SpecJobs == InitJobs /\ [][NextJobs]_vars

\* no credential has been revoked and no revoke is running
BeforeRevocation ==
  /\ revokeReq.pc = "idle"
  /\ \A c \in DOMAIN credentials : credentials[c].status = "active"

\* credentials are issued and shared; then revokes run, are interrupted at any
\* step and are invoked again, with default sets edited and applications
\* listed in between
NextRecover ==
  \/ /\ BeforeRevocation
     /\ \/ \E s \in SeekerDids : RequestVc(s, "did:issuer:1")
        \/ \E s \in SeekerDids, r \in ReqIds, c \in CredIds :
             ApproveRequest(s, r, SignedReply(c), TRUE)
        \/ PostSteps
        \/ \E r \in RecruiterDids : ApproveLoad(r, "did:issuer:1")
        \/ ApproveLedger(TRUE)
        \/ \E c \in CredIds : ApproveSign(SignedReply(c))
        \/ ApproveCreate
        \/ ApproveSave
        \/ ApproveRespond
  \/ /\ revokeReq.pc = "idle"
     /\ \E s \in SeekerDids, ids \in SUBSET ClientIds : ShareDefault(s, ids)
  \/ RevokePersonalSteps
  \/ RevokeBadgeSteps
  \/ RevokeStoreFailure
  \/ \E a \in AppIds : ListReadProofs("byId", a, "job1")
  \/ ListFilter
  \/ ListRespond

SpecRecover == Init /\ [][NextRecover]_vars

(***************************************************************************)
(* The issuer's signing key pair: callBbsIssue loads the Issuer document,  *)
(* ensureBbsKeyForIssuer generates and saves a key pair when the document  *)
(* has none, and the exchange is sent with the key pair of the document in *)
(* memory.                                                                 *)
(***************************************************************************)
notKeys == <<stores, slots, users, seekerDocs, issuerDocs, signed, httpReq,
             env, didRegistry, jobs, jobReq, grantReq, applyReq>>

\* generateBbsKeyPair(): the key pair call k generates.  A call generates one
\* only when the document it read had none, that is while no save of a key
\* pair has succeeded, so the name is not that of a key pair in use.
generateBbsKeyPair(k) == <<"key:1", "key:2">>[k]

\* key material stored by an earlier release, its curve written Bls12381G2,
\* and the same key pair with the curve written BLS12381_G2
LegacyKey == "key:0 crv Bls12381G2"
NormalisedKey == "key:0 crv BLS12381_G2"

\* fix(jwk): a legacy spelling of the curve is replaced, the key is kept
fix(key) == IF key = LegacyKey THEN NormalisedKey ELSE key

\* a call that generates whatever the document holds
KeyFind_AlwaysGenerate(k, issuerDid) ==
  /\ keyReq[k].pc = "idle"
  /\ CanStart
  /\ \A j \in HttpSlots : j < k => keyReq[j].pc # "idle"
  /\ keyReq' = [keyReq EXCEPT ![k] =
       IF issuerDid \notin DOMAIN issuerDocs
       THEN [IdleKey EXCEPT !.pc = "done", !.issuerDid = issuerDid, !.status = 500]
       ELSE [IdleKey EXCEPT !.pc = "generate",
                            !.issuerDid = issuerDid,
                            !.key = issuerKeys[issuerDid]]]
  /\ UNCHANGED <<notKeys, issuerKeys, signedWith>>

\* const issuerDoc = await IssuerModel.findOne({ did: issuerDid }); without one
\* callBbsIssue throws.  ensureBbsKeyForIssuer on a document with key material
\* applies fix to it in memory and saves when a curve label changed; then the
\* document goes to the exchange.  Without key material a pair is generated.
KeyFind(k, issuerDid) ==
  /\ keyReq[k].pc = "idle"
  /\ CanStart
  /\ \A j \in HttpSlots : j < k => keyReq[j].pc # "idle"
  /\ keyReq' = [keyReq EXCEPT ![k] =
       IF issuerDid \notin DOMAIN issuerDocs
       THEN [IdleKey EXCEPT !.pc = "done", !.issuerDid = issuerDid, !.status = 500]
       ELSE [IdleKey EXCEPT !.pc = IF issuerKeys[issuerDid] = NoKey THEN "generate"
                                   ELSE IF fix(issuerKeys[issuerDid]) # issuerKeys[issuerDid]
                                   THEN "normalise" ELSE "sign",
                            !.issuerDid = issuerDid,
                            !.key = fix(issuerKeys[issuerDid])]]
  /\ UNCHANGED <<notKeys, issuerKeys, signedWith>>

\* if (changed) await issuer.save(): the normalised key paths are written
KeyNormalise(k, ok) ==
  /\ keyReq[k].pc = "normalise"
  /\ IF ok
     THEN /\ issuerKeys' = [issuerKeys EXCEPT ![keyReq[k].issuerDid] = keyReq[k].key]
          /\ keyReq' = [keyReq EXCEPT ![k] = [@ EXCEPT !.pc = "sign"]]
     ELSE /\ keyReq' = [keyReq EXCEPT ![k] = [@ EXCEPT !.pc = "done", !.status = 500]]
          /\ UNCHANGED issuerKeys
  /\ UNCHANGED <<notKeys, signedWith>>

\* const { privateJwk, publicJwk } = await generateBbsKeyPair(), put on the
\* document in memory
KeyGenerate(k) ==
  /\ keyReq[k].pc = "generate"
  /\ keyReq' = [keyReq EXCEPT ![k] =
                  [@ EXCEPT !.pc = "save", !.key = generateBbsKeyPair(k)]]
  /\ UNCHANGED <<notKeys, issuerKeys, signedWith>>

\* await issuer.save(): the key paths of the document in memory are written
KeySave(k, ok) ==
  /\ keyReq[k].pc = "save"
  /\ IF ok
     THEN /\ issuerKeys' = [issuerKeys EXCEPT ![keyReq[k].issuerDid] = keyReq[k].key]
          /\ keyReq' = [keyReq EXCEPT ![k] = [@ EXCEPT !.pc = "sign"]]
     ELSE /\ keyReq' = [keyReq EXCEPT ![k] = [@ EXCEPT !.pc = "done", !.status = 500]]
          /\ UNCHANGED issuerKeys
  /\ UNCHANGED <<notKeys, signedWith>>

\* fetch(`${BBS_BASE_URL}/bbs/issue`, { vc, privateKeyJwk, publicKeyJwk, ... })
\* with the key pair of the document in memory; a signed document comes back
\* or the call throws
KeySign(k, ok) ==
  /\ keyReq[k].pc = "sign"
  /\ keyReq' = [keyReq EXCEPT ![k] =
                  [@ EXCEPT !.pc = "done", !.status = IF ok THEN 200 ELSE 500]]
  /\ signedWith' = IF ok
                   THEN signedWith \cup {<<keyReq[k].issuerDid, keyReq[k].key>>}
                   ELSE signedWith
  /\ UNCHANGED <<notKeys, issuerKeys>>

KeyRespond(k) ==
  /\ keyReq[k].pc = "done"
  /\ keyReq' = [keyReq EXCEPT ![k] = IdleKey]
  /\ UNCHANGED <<notKeys, issuerKeys, signedWith>>

\* issuances of the issuers on file and of an unknown one, none of the
\* issuers having key material at first
NextKeys ==
  \E k \in HttpSlots :
    \/ \E i \in IssuerDids \cup {"did:issuer:none"} : KeyFind(k, i)
    \/ KeyGenerate(k)
    \/ \E ok \in BOOLEAN : KeySave(k, ok)
    \/ \E ok \in BOOLEAN : KeySign(k, ok)
    \/ KeyRespond(k)

SpecKeys == Init /\ [][NextKeys]_vars

\* issuers on file with no key material, with key material of an earlier
\* release or with normalised key material
InitRekey ==
  /\ credentials = <<>>
  /\ seekers = [s \in SeekerDids |-> NewSeeker]
  /\ applications = <<>>
  /\ sharedProofs = <<>>
  /\ recruiters = [r \in RecruiterDids |-> NewRecruiter]
  /\ chain = [r \in RecruiterDids |-> "None"]
  /\ requestCount = 0
  /\ cascaded = {}
  /\ users = <<>>
  /\ seekerDocs = <<>>
  /\ issuerDocs = [i \in IssuerDids |-> [onboarded |-> TRUE]]
  /\ signed = {}
  /\ env = DefaultEnv
  /\ didRegistry = {}
  /\ jobs = <<>>
  /\ issuerKeys \in [IssuerDids -> {NoKey, LegacyKey, NormalisedKey}]
  /\ signedWith = {}
  /\ NoRequests

NextRekey ==
  \/ NextKeys
  \/ \E k \in HttpSlots, ok \in BOOLEAN : KeyNormalise(k, ok)

SpecRekey == InitRekey /\ [][NextRekey]_vars

(***************************************************************************)
(* POST /issuer/requests/:requestId/approve, one awaited call a step, so   *)
(* that approvals of one request can run side by side.                     *)
(***************************************************************************)
notGrants == <<applications, sharedProofs, recruiters, chain, cascaded, slots,
               users, seekerDocs, issuerDocs, httpReq, env, didRegistry, jobs,
               jobReq, issuerKeys, keyReq, signedWith, applyReq>>

GrantDone(k, status) ==
  [grantReq EXCEPT ![k] = [@ EXCEPT !.pc = "done", !.status = status]]

\* Seeker.findOne({ "pendingVcRequests.id": requestId }): 404 without one, 403
\* for a request that names another issuer; the document stays in memory
GrantFind(k, issuerDid, requestId) ==
  /\ grantReq[k].pc = "idle"
  /\ CanStart
  /\ \A j \in HttpSlots : j < k => grantReq[j].pc # "idle"
  /\ LET holders == {s \in DOMAIN seekers :
                       \E r \in seekers[s].pendingVcRequests : r.id = requestId}
         req == [IdleGrant EXCEPT !.requestId = requestId, !.issuerDid = issuerDid]
     IN  grantReq' = [grantReq EXCEPT ![k] =
           IF holders = {} THEN [req EXCEPT !.pc = "done", !.status = 404]
           ELSE LET s == CHOOSE d \in holders : TRUE
                    reqEntry == CHOOSE r \in seekers[s].pendingVcRequests :
                                  r.id = requestId
                IN  IF reqEntry.issuerDid # issuerDid
                    THEN [req EXCEPT !.pc = "done", !.status = 403]
                    ELSE [req EXCEPT !.pc = "sign", !.seekerDid = s,
                            !.pendingVcRequests = seekers[s].pendingVcRequests,
                            !.vcs = seekers[s].vcs]]
  /\ UNCHANGED <<credentials, seekers, requestCount, signed, notGrants>>

\* issueSimpleVc: every call makes an id of its own (crypto.randomBytes(16)),
\* here the number of the signed document; the exchange answers or throws
GrantSign(k, ok) ==
  /\ grantReq[k].pc = "sign"
  /\ Cardinality(signed) < MaxGrants
  /\ LET vcId == Cardinality(signed) + 1
         x == IF ok THEN SignedReply(vcId)
              ELSE [keyOk |-> TRUE, status |-> 503, id |-> 0]
         ids == callBbsIssue(issuerDocs, grantReq[k].issuerDid, x)
     IN  /\ grantReq' = IF ids # {}
                        THEN [grantReq EXCEPT ![k] =
                                [@ EXCEPT !.pc = "create", !.vcId = vcId]]
                        ELSE GrantDone(k, 500)
         /\ signed' = signed \cup BbsReturned(issuerDocs, grantReq[k].issuerDid, x)
  /\ UNCHANGED <<credentials, seekers, requestCount, notGrants>>

\* Credential.create({ credentialId: vcId, subjectDid: seekerDid, issuerDid, ...,
\* status: "active", vcRaw: vc })
GrantCreate(k, ok) ==
  /\ grantReq[k].pc = "create"
  /\ IF ok /\ CredentialCreateOk(credentials, grantReq[k].vcId)
     THEN /\ credentials' = CredentialCreate(credentials, grantReq[k].vcId,
                              NewCredential(grantReq[k].vcId, grantReq[k].seekerDid,
                                            grantReq[k].issuerDid,
                                            "EmploymentCredential", NoTx))
          /\ grantReq' = [grantReq EXCEPT ![k] = [@ EXCEPT !.pc = "save"]]
     ELSE /\ grantReq' = GrantDone(k, 500)
          /\ UNCHANGED credentials
  /\ UNCHANGED <<seekers, requestCount, signed, notGrants>>

\* seeker.pendingVcRequests = pendingVcRequests.filter((r) => r.id !== requestId);
\* seeker.vcs = [...seeker.vcs, { id: credentialDoc._id, status: "active",
\* credentialId: vcId }], both on the document as read; seeker.save() writes
\* the two arrays, or throws (500)
GrantSave(k, ok) ==
  /\ grantReq[k].pc = "save"
  /\ LET req == grantReq[k]
     IN  IF ok
         THEN /\ seekers' = [seekers EXCEPT
                   ![req.seekerDid].pendingVcRequests =
                      {r \in req.pendingVcRequests : r.id # req.requestId},
                   ![req.seekerDid].vcs =
                      req.vcs \cup {[id |-> ObjectId(req.vcId),
                                     credentialId |-> req.vcId,
                                     status |-> "active"]}]
              /\ grantReq' = GrantDone(k, 200)
         ELSE /\ grantReq' = GrantDone(k, 500)
              /\ UNCHANGED seekers
  /\ UNCHANGED <<credentials, requestCount, signed, notGrants>>

GrantRespond(k) ==
  /\ grantReq[k].pc = "done"
  /\ grantReq' = [grantReq EXCEPT ![k] = IdleGrant]
  /\ UNCHANGED <<credentials, seekers, requestCount, signed, notGrants>>

\* credential requests filed and approved, the approvals of a request invoked
\* side by side and again
NextGrant ==
  \/ \E s \in SeekerDids, i \in IssuerDids : RequestVc(s, i)
  \/ \E k \in HttpSlots :
       \/ \E i \in IssuerDids, r \in ReqIds : GrantFind(k, i, r)
       \/ \E ok \in BOOLEAN : GrantSign(k, ok)
       \/ \E ok \in BOOLEAN : GrantCreate(k, ok)
       \/ \E ok \in BOOLEAN : GrantSave(k, ok)
       \/ GrantRespond(k)

SpecGrant == Init /\ [][NextGrant]_vars

(***************************************************************************)
(* POST /applications by slot, so that submissions can run side by side.   *)
(***************************************************************************)
notApplies == <<credentials, seekers, recruiters, chain, requestCount, cascaded,
                slots, users, seekerDocs, issuerDocs, signed, httpReq, env,
                didRegistry, jobs, jobReq, issuerKeys, keyReq, signedWith,
                grantReq>>

ApplyDone(k, status) ==
  [applyReq EXCEPT ![k] = [@ EXCEPT !.pc = "done", !.status = status]]

\* const existing = await Application.findOne({ jobId, seekerDid }); with one,
\* 200 { alreadyApplied: true, application: existing }
ApplyFindExisting(k, seekerDid, jobId, recruiterDid, sharedVcIds) ==
  /\ applyReq[k].pc = "idle"
  /\ CanStart
  /\ \A j \in HttpSlots : j < k => applyReq[j].pc # "idle"
  /\ LET existing == {a \in DOMAIN applications :
                        /\ applications[a].jobId = jobId
                        /\ applications[a].seekerDid = seekerDid}
         req == [IdlePost EXCEPT !.seekerDid = seekerDid, !.jobId = jobId,
                                 !.recruiterDid = recruiterDid,
                                 !.sharedVcIds = sharedVcIds]
     IN  applyReq' = [applyReq EXCEPT ![k] =
           IF existing # {}
           THEN [req EXCEPT !.pc = "done", !.status = 200,
                            !.appId = CHOOSE a \in existing : TRUE]
           ELSE [req EXCEPT !.pc = "create"]]
  /\ UNCHANGED <<applications, sharedProofs, notApplies>>

\* Application.create({ jobId, seekerDid, recruiterDid, sharedVcIds }); the
\* schema has no index on (jobId, seekerDid)
ApplyCreate(k) ==
  /\ applyReq[k].pc = "create"
  /\ Cardinality(DOMAIN applications) < MaxApplies
  /\ LET req == applyReq[k]
         appId == Cardinality(DOMAIN applications) + 1
     IN  /\ applications' = applications @@
               (appId :> [jobId |-> req.jobId, seekerDid |-> req.seekerDid,
                          recruiterDid |-> req.recruiterDid,
                          sharedVcIds |-> req.sharedVcIds,
                          status |-> "submitted"])
         /\ applyReq' = [applyReq EXCEPT ![k] =
              IF req.sharedVcIds # {}
              THEN [@ EXCEPT !.pc = "readCreds", !.appId = appId]
              ELSE [@ EXCEPT !.pc = "done", !.appId = appId, !.status = 201]]
  /\ UNCHANGED <<sharedProofs, notApplies>>

ApplyReadCreds(k) ==
  /\ applyReq[k].pc = "readCreds"
  /\ LET req == applyReq[k]
         creds == FindOwnedActive(credentials, req.sharedVcIds, req.seekerDid)
         validSelected == ValidSelected(req.sharedVcIds, creds)
     IN  applyReq' = [applyReq EXCEPT ![k] =
           IF validSelected # {}
           THEN [@ EXCEPT !.pc = "bulkWrite", !.creds = creds,
                          !.validSelected = validSelected]
           ELSE [@ EXCEPT !.pc = "done", !.status = 201]]
  /\ UNCHANGED <<applications, sharedProofs, notApplies>>

ApplyBulkWrite(k) ==
  /\ applyReq[k].pc = "bulkWrite"
  /\ sharedProofs' = BulkUpsert(sharedProofs, applyReq[k].appId,
                                applyReq[k].validSelected, applyReq[k].creds)
  /\ applyReq' = [applyReq EXCEPT ![k] = [@ EXCEPT !.pc = "setShared"]]
  /\ UNCHANGED <<applications, notApplies>>

ApplySetShared(k) ==
  /\ applyReq[k].pc = "setShared"
  /\ applications' = [applications EXCEPT ![applyReq[k].appId].sharedVcIds =
                        applyReq[k].validSelected]
  /\ applyReq' = ApplyDone(k, 201)
  /\ UNCHANGED <<sharedProofs, notApplies>>

ApplyStoreFailure(k) ==
  /\ applyReq[k].pc \in {"create", "readCreds", "bulkWrite", "setShared"}
  /\ applyReq' = ApplyDone(k, 500)
  /\ UNCHANGED <<applications, sharedProofs, notApplies>>

ApplyRespond(k) ==
  /\ applyReq[k].pc = "done"
  /\ applyReq' = [applyReq EXCEPT ![k] = IdlePost]
  /\ UNCHANGED <<applications, sharedProofs, notApplies>>

\* credentials issued, and submissions of the seekers for the job side by side
NextApply ==
  \/ \E i \in IssuerDids, s \in SeekerDids, c \in CredIds :
       IssueVc(i, s, "EmploymentCredential", SignedReply(c))
  \/ \E k \in HttpSlots :
       \/ \E s \in SeekerDids, j \in JobIds, r \in RecruiterDids,
             ids \in SUBSET ClientIds : ApplyFindExisting(k, s, j, r, ids)
       \/ ApplyCreate(k)
       \/ ApplyReadCreds(k)
       \/ ApplyBulkWrite(k)
       \/ ApplySetShared(k)
       \/ ApplyStoreFailure(k)
       \/ ApplyRespond(k)

SpecApply == Init /\ [][NextApply]_vars

(***************************************************************************)
(* Properties of revocation.                                               *)
(***************************************************************************)
Revoked(c) == c \in DOMAIN credentials /\ credentials[c].status = "revoked"

\* C1 (cascade completeness): in every state where no revoke request is
\* mid-way, a credential whose status is revoked has no SharedProof record, is
\* in no application's sharedVcIds and is in no seeker's defaultSharedVcIds.
CascadeComplete ==
  revokeReq.pc \in {"idle", "done"} =>
    \A c \in DOMAIN credentials :
      credentials[c].status = "revoked" =>
        /\ \A k \in DOMAIN sharedProofs : k[2] # c
        /\ \A a \in DOMAIN applications : c \notin applications[a].sharedVcIds
        /\ \A s \in DOMAIN seekers : c \notin seekers[s].defaultSharedVcIds

\* the position of the revoke handler is after the status write
RevokePastMark ==
  \/ revokeReq.pc \in {"seekerUpdate", "appsPull", "proofsDelete",
                       "findRecruiter", "ledger", "badgeUpdate", "credTx"}
  \/ /\ revokeReq.pc = "done"
     /\ revokeReq.status \in {200, 500}
     /\ revokeReq.failedAt # "mark"

\* C2 (revocation ordering): the credential's status is revoked before any
\* downstream effect of the revoke (seeker entry, default set, applications,
\* shared proofs, ledger, badge projection), and a revoke that fails at a
\* later step leaves the status revoked.
RevokedBeforeEffects ==
  /\ \A c \in cascaded : Revoked(c)
  /\ RevokePastMark => Revoked(revokeReq.credentialId)

\* a revoke failed after the seeker update ran, and the credential is revoked
RevokeFailedLateWitness ==
  /\ revokeReq.pc = "done"
  /\ revokeReq.status = 500
  /\ revokeReq.failedAt \in {"appsPull", "proofsDelete", "badgeUpdate", "credTx"}
  /\ revokeReq.credentialId \in cascaded
  /\ Revoked(revokeReq.credentialId)

\* C3 (status is one-way): a revoked credential stays revoked through
\* re-issue, re-approval, re-revocation and sharing, and no operation deletes
\* a Credential document.
StatusOneWay ==
  [][\A c \in DOMAIN credentials :
       /\ c \in DOMAIN credentials'
       /\ credentials[c].status = "revoked" => credentials'[c].status = "revoked"]_vars

\* an approval was answered 500 because the signed document carried the id of
\* a credential that is already stored, and that credential is still revoked
ReissueOverRevokedWitness ==
  /\ approveReq.pc = "done"
  /\ approveReq.failedAt = "create"
  /\ Revoked(approveReq.vcId)
  /\ credentials[approveReq.vcId].issuerDid # approveReq.issuerDid

(***************************************************************************)
(* Properties of the read paths.                                           *)
(***************************************************************************)
\* C4 (live status filter): the shared proofs that GET /applications/:id and
\* GET /applications/by-job return are exactly the stored ones whose credential
\* is active in the Credential collection when the listing filters them; a
\* record left behind for a revoked credential is not returned.
LiveStatusFilter ==
  [][(listReq.pc = "filter" /\ listReq'.pc = "done" /\ listReq'.status = 200) =>
       listReq'.proofs =
         {p \in listReq.proofsRaw :
            p[2] \in DOMAIN credentials /\ credentials[p[2]].status = "active"}]_vars

\* a listing answered without a record that is still stored for a revoked
\* credential
StaleProofOmittedWitness ==
  /\ listReq.pc = "done"
  /\ listReq.status = 200
  /\ \E p \in listReq.proofsRaw :
       /\ p \in DOMAIN sharedProofs
       /\ Revoked(p[2])
       /\ p \notin listReq.proofs

\* C5 (verification re-checks live status): neither verification route
\* answers valid for a credential whose status is revoked at that moment.
VerifyRechecksStatus ==
  [][(verifyReq.pc = "call" /\ verifyReq'.pc = "done" /\ verifyReq'.valid) =>
       ~Revoked(verifyReq.vcId)]_vars

(***************************************************************************)
(* Properties of sharing.                                                  *)
(***************************************************************************)
\* the Credential read of a sharing request returned id as a credential of
\* subjectDid with status active
ReadOwnedActive(creds, id, subjectDid) ==
  \E c \in creds : /\ c.credentialId = id
                   /\ c.subjectDid = subjectDid
                   /\ c.status = "active"

\* the SharedProof records of application appId that the step creates or
\* overwrites are those of the ids in written; for every id requested, a
\* record is created or overwritten only if the request's Credential read
\* returned it as an active credential of the application's seeker
WritesOnlyOwnedActive(appId, requested, written, creds) ==
  /\ \A k \in DOMAIN sharedProofs' \ DOMAIN sharedProofs :
       /\ k[1] = appId
       /\ k[2] \in requested
       /\ ReadOwnedActive(creds, k[2], applications[appId].seekerDid)
  /\ \A id \in written :
       /\ id \in requested
       /\ ReadOwnedActive(creds, id, applications[appId].seekerDid)
  /\ \A id \in requested :
       ~ReadOwnedActive(creds, id, applications[appId].seekerDid) =>
          /\ <<appId, id>> \in DOMAIN sharedProofs' => <<appId, id>> \in DOMAIN sharedProofs
          /\ <<appId, id>> \in DOMAIN sharedProofs =>
               /\ <<appId, id>> \in DOMAIN sharedProofs'
               /\ sharedProofs'[<<appId, id>>] = sharedProofs[<<appId, id>>]

\* C6 (disclosure only for owned active credentials): POST /applications and
\* PATCH /applications/:id/shared-vcs create or overwrite SharedProof
\* (applicationId, vcId) only if the credential, when the request read it, had
\* the application's seeker as subject and status active; for any other
\* requested id no record is written.
DisclosureOnlyOwnedActive ==
  [][/\ (postReq.pc = "bulkWrite" /\ postReq'.pc = "setShared") =>
          WritesOnlyOwnedActive(postReq.appId, postReq.sharedVcIds,
                                postReq.validSelected, postReq.creds)
     /\ (patchReq.pc = "bulkWrite" /\ patchReq'.pc = "save") =>
          WritesOnlyOwnedActive(patchReq.appId, patchReq.requested,
                                patchReq.validSelected, patchReq.creds)
     /\ (postReq' = postReq /\ patchReq' = patchReq) =>
          DOMAIN sharedProofs' \subseteq DOMAIN sharedProofs]_vars

\* a PATCH named two ids: the record of the owned active one is stored, none
\* is stored for the other
MixedShareWitness ==
  /\ patchReq.pc = "save"
  /\ \E id \in patchReq.requested : <<patchReq.appId, id>> \in DOMAIN sharedProofs
  /\ \E id \in patchReq.requested :
       /\ id \notin patchReq.validSelected
       /\ <<patchReq.appId, id>> \notin DOMAIN sharedProofs

OwnedActive(id, seekerDid) ==
  /\ id \in DOMAIN credentials
  /\ credentials[id].subjectDid = seekerDid
  /\ credentials[id].status = "active"

\* C8 (shared-set invariant): once POST /applications has answered 201, every
\* id in every application's sharedVcIds is the credentialId of an active
\* credential whose subject is the application's seeker, whatever list the
\* client sent.
SharedSetInvariant ==
  (postReq.pc = "done" /\ postReq.status = 201) =>
    \A a \in DOMAIN applications :
      \A id \in applications[a].sharedVcIds :
        OwnedActive(id, applications[a].seekerDid)

(***************************************************************************)
(* Properties of the trust badge.                                          *)
(***************************************************************************)
\* C9 (ledger first, then the local projection): a step of the approve handler
\* or of the revoke handler changes a Recruiter document only after that
\* request's ledger call succeeded; a failed ledger call ends the request with
\* 500 and leaves every Recruiter document as it was.
LedgerThenLocal ==
  [][/\ (approveReq' # approveReq /\ recruiters' # recruiters) =>
          approveReq.ledgerOk /\ approveReq.txHash # NoTx
     /\ (revokeReq' # revokeReq /\ recruiters' # recruiters) =>
          revokeReq.tx # NoTx
     /\ (approveReq.pc = "ledger" /\ approveReq'.pc = "done") =>
          /\ approveReq'.status = 500
          /\ recruiters' = recruiters
          /\ chain' = chain
     /\ (approveReq.pc = "ledger" /\ approveReq'.pc = "sign") =>
          chain'[approveReq.recruiterDid] = "Active"
     /\ (revokeReq.pc = "ledger" /\ revokeReq'.pc = "done") =>
          /\ revokeReq'.status = 500
          /\ recruiters' = recruiters
          /\ chain' = chain
     /\ (revokeReq.pc = "ledger" /\ revokeReq'.pc = "badgeUpdate") =>
          chain'[revokeReq.subjectDid] = "Revoked"]_vars

\* an approval of an onboarded organisation ended on a failed ledger call: the
\* ledger and the projection are as before the call
LedgerFailedWitness ==
  /\ approveReq.pc = "done"
  /\ approveReq.status = 500
  /\ approveReq.failedAt = "ledger"
  /\ chain[approveReq.recruiterDid] = "None"
  /\ recruiters[approveReq.recruiterDid].kycStatus = "pending"
  /\ recruiters[approveReq.recruiterDid].badge.status = "None"
  /\ recruiters[approveReq.recruiterDid].badge.txHash = NoTx

\* C10 (badge issue commit): when an approval whose ledger issueBadge call
\* succeeded ends, the organisation's badge status is Active and the badge
\* carries a ledger transaction reference, whatever the later steps did.
BadgeIssueCommit ==
  [][(approveReq.pc # "done" /\ approveReq'.pc = "done" /\ approveReq'.ledgerOk) =>
       /\ recruiters'[approveReq.recruiterDid].badge.status = "Active"
       /\ recruiters'[approveReq.recruiterDid].badge.txHash # NoTx]_vars

(***************************************************************************)
(* Properties of the role states and of the gates.                         *)
(***************************************************************************)
\* the role sync of slot k for the given role has read its record and is
\* about to finish
SyncFinishing(k, role) ==
  /\ httpReq[k].pc = "syncSave"
  /\ Current(k).role = role
  /\ httpReq'[k].pc = "run"

\* the cached state of the role, in the stored User document and in req.user
CachedAfter(k, role, state) ==
  \A u \in httpReq[k].user :
    /\ users'[u.id].roles[role] = state
    /\ \A v \in httpReq'[k].user : v.roles[role] = state

\* C11 (badge revocation reaches the role): the revoke of an organisation's
\* trust credential sets the organisation's badge.status to Revoked once the
\* ledger call succeeded, and a request that then runs the recruiter role sync
\* for the organisation's session reads that record and leaves the cached
\* recruiter role rejected.
BadgeRevokeReachesRole ==
  [][/\ (revokeReq.pc = "badgeUpdate" /\ revokeReq'.pc = "credTx") =>
          /\ recruiters'[revokeReq.subjectDid].badge.status = "Revoked"
          /\ computeRecruiterRoleState(
               {[recruiters'[revokeReq.subjectDid] EXCEPT !.onboarded = TRUE]}) = "rejected"
     /\ \A k \in HttpSlots :
          /\ (At(k, "sync") /\ Current(k).role = "recruiter"
                /\ httpReq'[k].pc = "syncSave"
                /\ httpReq[k].session.did \in DOMAIN recruiters) =>
               httpReq'[k].doc = {recruiters[httpReq[k].session.did]}
          /\ (SyncFinishing(k, "recruiter")
                /\ \E r \in httpReq[k].doc :
                     r.onboarded /\ r.badge.status = "Revoked") =>
               CachedAfter(k, "recruiter", "rejected")]_vars

\* an approved organisation whose trust credential was revoked has signed in
\* again: the sync of that request moved its cached recruiter role to rejected
RevokedOrgRejectedWitness ==
  /\ revokeReq.pc = "idle"
  /\ \E c \in DOMAIN credentials :
       /\ Revoked(c)
       /\ credentials[c].subjectDid = RecruiterSession.did
       /\ credentials[c].revocationTxHash # NoTx
  /\ recruiters[RecruiterSession.did].kycStatus = "approved"
  /\ recruiters[RecruiterSession.did].badge.status = "Revoked"
  /\ httpReq[1].pc = "done"
  /\ httpReq[1].status = 200
  /\ "recruiter" \in httpReq[1].saved
  /\ users[RecruiterSession.privyUserId].roles["recruiter"] = "rejected"


\* C12 (partial failure of an organisation revoke is reported): when the
\* ledger badge-revoke call of a trust-credential revoke fails, the credential
\* stays revoked and the answer reports the completed revocation together
\* with the failure of the badge revocation, not the error body every failure
\* of the route is answered with.
RevokeReportsBadgeFailure ==
  [][(revokeReq.pc = "ledger" /\ revokeReq'.pc = "done") =>
       /\ credentials'[revokeReq.credentialId].status = "revoked"
       /\ revokeReq'.body.revoked
       /\ revokeReq'.body # RevokeBody("Failed to revoke VC", FALSE, NoTx)]_vars


(***************************************************************************)
(* Properties of the revoke request's lookup.                              *)
(***************************************************************************)
\* the collections and the ledger a revoke could touch
RevokeTargetsUnchanged ==
  /\ credentials' = credentials
  /\ seekers' = seekers
  /\ applications' = applications
  /\ sharedProofs' = sharedProofs
  /\ recruiters' = recruiters
  /\ chain' = chain

\* C13 (revoke of a credential the session issuer does not own): a revoke
\* naming a credentialId that does not exist, or a credential of another
\* issuer, is answered 404, and no step of that request changes a credential
\* status, a badge, a holder's lists, a shared set or a disclosure record, or
\* calls the ledger.
RevokeNotOwnedChangesNothing ==
  [][/\ (revokeReq.pc = "idle" /\ revokeReq'.pc # "idle"
           /\ (revokeReq'.credentialId \notin DOMAIN credentials
                 \/ credentials[revokeReq'.credentialId].issuerDid
                      # revokeReq'.issuerDid)) =>
          /\ revokeReq'.pc = "done"
          /\ revokeReq'.status = 404
          /\ RevokeTargetsUnchanged
     /\ (revokeReq.pc = "done" /\ revokeReq.status = 404 /\ revokeReq' # revokeReq) =>
          /\ revokeReq'.pc = "idle"
          /\ RevokeTargetsUnchanged]_vars

\* a revoke by an issuer other than the credential's was answered 404 and the
\* credential is still active
RevokeByOtherIssuerWitness ==
  /\ revokeReq.pc = "done"
  /\ revokeReq.status = 404
  /\ revokeReq.credentialId \in DOMAIN credentials
  /\ credentials[revokeReq.credentialId].issuerDid # revokeReq.issuerDid
  /\ credentials[revokeReq.credentialId].status = "active"
  /\ revokeReq.credentialId \notin cascaded


(***************************************************************************)
(* Properties of the role derivation, the role sync and the gates.         *)
(***************************************************************************)
\* the role-state table of the specification, for a record read by a sync
\* (a set: empty when there is no record)
RoleTable(role, doc) ==
  IF doc = {} THEN "none"
  ELSE LET r == CHOOSE x \in doc : TRUE
       IN  IF ~r.onboarded THEN "none"
           ELSE IF role # "recruiter" THEN "active"
           ELSE IF r.badge.status = "Active" THEN "active"
           ELSE IF r.badge.status \in {"Revoked", "Rejected"} THEN "rejected"
           ELSE "pending"

\* C14 (role-state derivation): the state a role sync derives is none without
\* a record or with onboarded false; for an onboarded seeker or issuer active;
\* for an onboarded organisation active exactly for badge status Active,
\* rejected exactly for Revoked or Rejected, pending for Pending and for any
\* other or unset status; KYC status and badge.verified do not influence it.
RoleDerivation ==
  \A k \in HttpSlots :
    httpReq[k].pc = "syncSave" =>
      /\ httpReq[k].desired = RoleTable(Current(k).role, httpReq[k].doc)
      /\ Current(k).role = "recruiter" =>
           \A r \in httpReq[k].doc :
             \A kyc \in {"none", "pending", "approved", "rejected"}, v \in BOOLEAN :
               computeRecruiterRoleState(
                 {[r EXCEPT !.kycStatus = kyc, !.badge.verified = v]})
                 = httpReq[k].desired

\* a sync read an organisation that is not onboarded although its badge is
\* Active and verified and its KYC approved: the derived state is none
NotOnboardedActiveBadgeWitness ==
  /\ httpReq[1].pc = "syncSave"
  /\ Current(1).role = "recruiter"
  /\ httpReq[1].desired = "none"
  /\ \E r \in httpReq[1].doc :
       /\ ~r.onboarded
       /\ r.kycStatus = "approved"
       /\ r.badge.status = "Active"
       /\ r.badge.verified


\* C15 (role sync postcondition, write on change): when a role sync finishes
\* for a request with a loaded user, the role's state on that user is the
\* derivation applied to the record the sync read; the User document is
\* written only if the state the request held differed from the derived one,
\* and then holds the derived state; the other two roles are unchanged on the
\* request's user and in the stored document.
SyncPostcondition ==
  [][\A k \in HttpSlots, role \in Roles :
       SyncFinishing(k, role) =>
         LET before == CHOOSE u \in httpReq[k].user : TRUE
             after == CHOOSE u \in httpReq'[k].user : TRUE
             derived == RoleTable(role, httpReq[k].doc)
         IN  /\ after.roles[role] = derived
             /\ users' # users => before.roles[role] # derived
             /\ before.roles[role] # derived =>
                  users'[before.id].roles[role] = derived
             /\ \A other \in Roles \ {role} :
                  /\ after.roles[other] = before.roles[other]
                  /\ users'[before.id].roles[other] = users[before.id].roles[other]
             /\ \A id \in DOMAIN users \ {before.id} : users'[id] = users[id]]_vars

\* one request's recruiter sync wrote the User document (the organisation was
\* rejected since the user was last stored) and its issuer sync finished
\* without writing
SyncWroteOnChangeWitness ==
  \E k \in HttpSlots :
    /\ httpReq[k].synced = Roles
    /\ httpReq[k].saved = {"recruiter"}
    /\ users[RecruiterSession.privyUserId].roles =
         [r \in Roles |-> IF r = "recruiter" THEN "rejected" ELSE "none"]
    /\ \A u \in httpReq[k].user :
         u.roles = users[RecruiterSession.privyUserId].roles

\* C16 (sync upstream of every gate): on a request path with a gate for a
\* role, the gate is reached and evaluated only with that role's sync
\* completed earlier in the same request, and a sync completes only after the
\* session was verified and the user loaded.
SyncUpstreamOfGate ==
  \A k \in HttpSlots :
    httpReq[k].route \in Routes =>
      /\ \A g \in httpReq[k].gate : g.role \in httpReq[k].synced
      /\ At(k, "gate") => Current(k).role \in httpReq[k].synced
      /\ httpReq[k].synced # {} =>
           /\ httpReq[k].user # {}
           /\ httpReq[k].session # NoSession
           /\ \A u \in httpReq[k].user : u.id = httpReq[k].session.privyUserId

\* an issuer route was refused although the stored user had the issuer role
\* active when the request arrived: the sync in front of the gate had
\* recomputed it
StaleActiveRefusedWitness ==
  /\ httpReq[1].route = "POST /issuer/vc/revoke"
  /\ httpReq[1].pc = "done"
  /\ httpReq[1].status = 403
  /\ httpReq[1].gate = {[role |-> "issuer", allowed |-> {"active"}]}
  /\ "issuer" \in httpReq[1].saved
  /\ users[httpReq[1].session.privyUserId].roles["issuer"] = "none"

\* user?.roles?.[role] ?? "none", as the specification words it
CachedState(user, role) ==
  IF user = {} THEN "none"
  ELSE LET u == CHOOSE x \in user : TRUE
       IN  IF role \in DOMAIN u.roles THEN u.roles[role] ELSE "none"

\* C17 (capability gate): a gate lets the request proceed if and only if the
\* cached state of its role on req.user is in the allowed set and answers 403
\* otherwise; a request without a loaded user or without roles counts as none;
\* the gate changes neither req.user nor any User document.
GateReadsCachedState ==
  [][\A k \in HttpSlots :
       httpReq'[k].gate \ httpReq[k].gate # {} =>
         LET g == CHOOSE x \in httpReq'[k].gate \ httpReq[k].gate : TRUE
             user == httpReq'[k].user
             passed == IF httpReq'[k].route = "rbac"
                       THEN httpReq'[k].pc = "done" /\ httpReq'[k].status = 200
                       ELSE httpReq'[k].pc = "run" /\ httpReq'[k].at = httpReq[k].at + 1
             refused == httpReq'[k].pc = "done" /\ httpReq'[k].status = 403
         IN  /\ CachedState(user, g.role) \in g.allowed => passed
             /\ CachedState(user, g.role) \notin g.allowed => refused
             /\ ~(passed /\ refused)
             /\ users' = users
             /\ httpReq[k].pc # "idle" => user = httpReq[k].user]_vars

\* a gate allowing none and active let a request without req.user through
NoUserCountsAsNoneWitness ==
  /\ httpReq[1].route = "rbac"
  /\ httpReq[1].user = {}
  /\ httpReq[1].pc = "done"
  /\ httpReq[1].status = 200
  /\ \E g \in httpReq[1].gate : g.allowed = {"none", "active"}


StoredOnlyIfSigned ==
  /\ [](DOMAIN credentials \subseteq signed)
  /\ [][/\ \A c \in DOMAIN credentials' \ DOMAIN credentials : c \in signed'
        /\ (approveReq.pc = "sign" /\ approveReq'.pc = "create") =>
             approveReq'.vcId \in signed'
        /\ (approveReq.pc = "sign" /\ approveReq'.pc = "done") =>
             /\ approveReq'.status = 500
             /\ credentials' = credentials
             /\ recruiters' = recruiters
        /\ \A s \in DOMAIN seekers :
             (seekers'[s].vcs # seekers[s].vcs
                \/ (seekers'[s].pendingVcRequests # seekers[s].pendingVcRequests
                      /\ requestCount' = requestCount)) =>
               \E c \in DOMAIN credentials' \ DOMAIN credentials :
                 /\ c \in signed'
                 /\ credentials'[c].subjectDid = s]_vars

\* an organisation approval failed at the signing exchange after its ledger
\* call succeeded, and a seeker's request names an issuer without a record:
\* no Credential is stored and the request is still pending
SigningFailedNothingStoredWitness ==
  /\ approveReq.pc = "done"
  /\ approveReq.status = 500
  /\ approveReq.failedAt = "sign"
  /\ chain[approveReq.recruiterDid] = "Active"
  /\ credentials = <<>>
  /\ signed = {}
  /\ \E s \in DOMAIN seekers :
       /\ seekers[s].vcs = {}
       /\ \E r \in seekers[s].pendingVcRequests : r.issuerDid \notin DOMAIN issuerDocs


(***************************************************************************)
(* Properties of onboarding.                                               *)
(***************************************************************************)
\* C20 (holder DID immutability): once a Seeker record has a DID, no later
\* onboarding step changes it, also when the session resolves to the record
\* by email and carries or derives a different DID.
DidNeverRewritten ==
  [][\A d \in DOMAIN seekerDocs :
       seekerDocs[d].did # NoDid =>
         d \in DOMAIN seekerDocs' /\ seekerDocs'[d].did = seekerDocs[d].did]_vars

\* what the guard on doc.did does establish: an onboarding call that found
\* the record holding a DID leaves that DID as it is, and the DID of a record
\* changes only in the save of a call that read the record without one
HolderDidImmutable ==
  [][/\ \A k \in HttpSlots :
          (httpReq[k].pc = "onboardSave" /\ httpReq'[k] # httpReq[k]) =>
            \A doc \in httpReq[k].doc :
              doc.did # NoDid =>
                seekerDocs'[doc.id].did = seekerDocs[doc.id].did
     /\ \A d \in DOMAIN seekerDocs :
          /\ d \in DOMAIN seekerDocs'
          /\ seekerDocs'[d].did # seekerDocs[d].did =>
               \E k \in HttpSlots :
                 /\ httpReq[k].pc = "onboardSave"
                 /\ httpReq'[k].pc = "onboardUserSave"
                 /\ \E doc \in httpReq[k].doc : doc.id = d /\ doc.did = NoDid]_vars

\* a second onboarding of the holder under a session with another DID found
\* the record by email and was answered 200: the record holds the first DID
SecondOnboardKeepsDidWitness ==
  \E k \in HttpSlots :
    /\ httpReq[k].route = "POST /seekers/onboard"
    /\ httpReq[k].pc = "done"
    /\ httpReq[k].status = 200
    /\ httpReq[k].session = SeekerWallet2
    /\ \E doc \in httpReq[k].doc :
         /\ doc.did = SeekerWallet1.did
         /\ seekerDocs[doc.id].did = SeekerWallet1.did
         /\ seekerDocs[doc.id].email = SeekerWallet2.email


\* C21 (at most one holder per DID under concurrency): under every
\* interleaving of onboarding requests no two Seeker records hold the same
\* DID; the save that would give a second record a DID held by another one is
\* answered 409 and writes nothing.
OneHolderPerDid ==
  /\ [](\A a, b \in DOMAIN seekerDocs :
          (a # b /\ seekerDocs[a].did = seekerDocs[b].did) =>
            seekerDocs[a].did = NoDid)
  /\ [][\A k \in HttpSlots :
          (httpReq[k].pc = "onboardSave" /\ httpReq'[k].pc = "done") =>
            /\ seekerDocs' = seekerDocs
            /\ httpReq'[k].status = 409 <=>
                 /\ httpReq'[k].status # 500
                 /\ \E d \in DOMAIN seekerDocs :
                      /\ seekerDocs[d].did = deriveDidFromSession(httpReq[k].session)
                      /\ \A doc \in httpReq[k].doc : doc.id # d]_vars

\* two requests of one session found no record; one created it, the other's
\* create was answered 409 and there is one record
DuplicateCreateRejectedWitness ==
  \E k \in HttpSlots :
    /\ httpReq[k].pc = "done"
    /\ httpReq[k].status = 409
    /\ httpReq[k].doc = {}
    /\ Cardinality(DOMAIN seekerDocs) = 1
    /\ \A d \in DOMAIN seekerDocs :
         seekerDocs[d].did = deriveDidFromSession(httpReq[k].session)

\* C22 (best-effort DID registration): a failed on-chain registration during
\* onboarding changes nothing but the missing transaction hash: the handler
\* goes on to the save with the same document, the save stores the session's
\* DID on the record, and the user save sets the seeker role state of the
\* request's user from the onboarded flag of the document the handler holds,
\* writing it when it differs from the state the request loaded.
RegistrationBestEffort ==
  [][\A k \in HttpSlots :
       /\ (httpReq[k].pc = "onboardRegister" /\ httpReq'[k] # httpReq[k]) =>
            /\ seekerDocs' = seekerDocs
            /\ users' = users
            /\ [httpReq'[k] EXCEPT !.didTx = NoTx]
                 = [httpReq[k] EXCEPT !.pc = "onboardSave"]
       /\ (httpReq[k].pc = "onboardSave" /\ httpReq'[k].pc = "onboardUserSave"
             /\ deriveDidFromSession(httpReq[k].session) # NoDid
             /\ \A doc \in httpReq[k].doc : doc.did = NoDid) =>
            \E d \in DOMAIN seekerDocs' :
              seekerDocs'[d].did = deriveDidFromSession(httpReq[k].session)
       /\ (httpReq[k].pc = "onboardUserSave" /\ httpReq'[k].status = 200) =>
            LET state == IF httpReq[k].onboarded THEN "active" ELSE "none"
            IN  /\ \A u \in httpReq'[k].user : u.roles["seeker"] = state
                /\ \A u \in httpReq[k].user :
                     u.roles["seeker"] # state =>
                       users'[u.id].roles["seeker"] = state]_vars

\* an onboarding whose registration failed was answered 200: nothing is
\* registered, the record holds the DID and the cached seeker state is active
RegistrationFailedOnboardedWitness ==
  \E k \in HttpSlots :
    /\ httpReq[k].pc = "done"
    /\ httpReq[k].status = 200
    /\ httpReq[k].session = SeekerWallet1
    /\ httpReq[k].didTx = NoTx
    /\ \A doc \in httpReq[k].doc : doc.did = NoDid
    /\ didRegistry = {}
    /\ \E d \in DOMAIN seekerDocs :
         seekerDocs[d].did = SeekerWallet1.did /\ seekerDocs[d].onboarded
    /\ users[SeekerWallet1.privyUserId].roles["seeker"] = "active"


(***************************************************************************)
(* Properties of the trust status of jobs.                                 *)
(***************************************************************************)
\* C23 (trust-status read fallback): when the ledger cannot be reached, the
\* status read for an organisation does not fail and is the local fallback,
\* Active if the organisation's kycStatus is approved and badge.verified is
\* true, None otherwise.
TrustReadFallsBackLocal ==
  [][(jobReq.pc = "idle" /\ jobReq'.pc = "create" /\ ~jobReq'.ledgerOk) =>
       LET rec == recruiters[jobReq'.didOwner]
       IN  jobReq'.trustStatus =
             IF rec.kycStatus = "approved" /\ rec.badge.verified
             THEN "Active" ELSE "None"]_vars

\* the read routes that present a job
JobReadRoutes == {"GET /jobs", "GET /jobs/:id", "GET /applications/:id"}

\* C30 (no stale trusted job after badge revocation): a read of a job whose
\* owner's badge was revoked when the request arrived, and still is, presents
\* the job neither with trustStatus Active nor with verified = true.
NoStaleTrustedJob ==
  [][(jobReq.pc # "done" /\ jobReq'.pc = "done"
        /\ jobReq'.route \in JobReadRoutes) =>
       \A j \in DOMAIN jobReq'.view :
         jobs[j].didOwner \in jobReq'.revokedAtStart \cap RevokedOrgs(recruiters) =>
           /\ jobReq'.view[j].trustStatus # "Active"
           /\ ~jobReq'.view[j].verified]_vars


SignedWithStoredKey ==
  \A p \in signedWith : issuerKeys[p[1]] = p[2]


DefaultSetHoldsIssuedIds ==
  \A s \in DOMAIN seekers :
    \A id \in seekers[s].defaultSharedVcIds :
      /\ id \in DOMAIN credentials
      /\ credentials[id].subjectDid = s


(***************************************************************************)
(* Properties of a superseded trust credential.                            *)
(***************************************************************************)
\* C29 (revoking a superseded trust credential does not touch the current
\* badge): while an organisation's badge is Active and references an active
\* trust credential and no approval is running, the ledger step and the badge
\* step of a revoke of another credential of that organisation make no ledger
\* revoke and leave the organisation's record and its ledger entry as they are.
SupersededRevokeLeavesBadge ==
  [][\A r \in DOMAIN recruiters :
       (/\ revokeReq.subjectDid = r
        /\ revokeReq.pc \in {"ledger", "badgeUpdate"}
        /\ revokeReq' # revokeReq
        /\ approveReq.pc = "idle"
        /\ recruiters[r].badge.status = "Active"
        /\ recruiters[r].badge.credentialId \in DOMAIN credentials
        /\ recruiters[r].badge.credentialId # revokeReq.credentialId
        /\ credentials[recruiters[r].badge.credentialId].status = "active") =>
         /\ chain'[r] = chain[r]
         /\ recruiters'[r] = recruiters[r]
         /\ revokeReq'.tx = NoTx]_vars


(***************************************************************************)
(* Properties of identity resolution.                                      *)
(***************************************************************************)
\* C31 (seeker sync and Identity Resolver agree): in a request that has passed
\* requireSeekerOnboarded, the Seeker record the role sync read is the record
\* findSeekerBySession returns for the session, and the seeker role state the
\* request carries to the gate is not none.
SyncAgreesWithResolver ==
  \A k \in HttpSlots :
    (/\ httpReq[k].route = "GET /seekers/vcs"
     /\ httpReq[k].pc \in {"run", "done"}
     /\ httpReq[k].at >= 5) =>
      /\ httpReq[k].doc =
           {seekerDocs[d] : d \in findSeekerBySession(seekerDocs, httpReq[k].session)}
      /\ \A u \in httpReq[k].user : u.roles.seeker # "none"


(***************************************************************************)
(* Properties of request approval.                                         *)
(***************************************************************************)
\* C32 (one credential per approved request): with credentials created by
\* request approval only, there are never more Credential records than
\* requests filed, a holder never has more issued entries than requests filed,
\* every issued entry names an active Credential of that holder, and a request
\* that was approved with 200 is no longer pending.
OneCredentialPerRequest ==
  /\ Cardinality(DOMAIN credentials) <= requestCount
  /\ \A s \in DOMAIN seekers :
       /\ Cardinality(seekers[s].vcs) <= requestCount
       /\ \A v \in seekers[s].vcs :
            /\ v.credentialId \in DOMAIN credentials
            /\ credentials[v.credentialId].subjectDid = s
            /\ credentials[v.credentialId].status = "active"
  /\ \A k \in HttpSlots :
       (grantReq[k].pc = "done" /\ grantReq[k].status = 200) =>
         \A r \in seekers[grantReq[k].seekerDid].pendingVcRequests :
           r.id # grantReq[k].requestId


(***************************************************************************)
(* Properties of submission.                                               *)
(***************************************************************************)
\* C33 (no duplicate applications): under concurrent POST /applications of a
\* seeker for a job, no two Application records have the same jobId and the
\* same seekerDid.
NoDuplicateApplications ==
  \A a, b \in DOMAIN applications :
    (/\ applications[a].jobId = applications[b].jobId
     /\ applications[a].seekerDid = applications[b].seekerDid) => a = b


(***************************************************************************)
(* Properties of the badge record.                                         *)
(***************************************************************************)
\* C34 (badge coherence): in every Recruiter record badge.verified is true
\* exactly when badge.status is Active, through creation, onboarding
\* submission, approval, rejection and trust-credential revocation in any
\* order.
BadgeCoherent ==
  \A r \in DOMAIN recruiters :
    recruiters[r].badge.verified <=> (recruiters[r].badge.status = "Active")

\* the badge update of a revoke has been written over an approved badge
RevokedBadgeCoherentWitness ==
  /\ revokeReq.pc = "credTx"
  /\ \E r \in DOMAIN recruiters :
       /\ revokeReq.subjectDid = r
       /\ recruiters[r].kycStatus = "approved"
       /\ recruiters[r].badge.status = "Revoked"
       /\ ~recruiters[r].badge.verified
       /\ recruiters[r].badge.credentialId = revokeReq.credentialId


(***************************************************************************)
(* Properties of PATCH /applications/:id/shared-vcs.                       *)
(***************************************************************************)
\* the ids of the SharedProof records of an application
ProofIdsOf(store, appId) == {p[2] : p \in {q \in DOMAIN store : q[1] = appId}}

\* the ids of a list that are active credentials of a holder
OwnedActiveIds(ids, subjectDid) ==
  {id \in ids \cap DOMAIN credentials :
     /\ credentials[id].subjectDid = subjectDid
     /\ credentials[id].status = "active"}

\* C35 (shared-VC update postcondition): the step that answers a PATCH
\* shared-vcs with 200 leaves the application's SharedProof ids equal to its
\* sharedVcIds, both being the requested ids that are active credentials of
\* the application's seeker; and a PATCH running on stores that already are
\* the outcome of its request deletes and writes without changing them.
PatchPostcondition ==
  [][/\ (patchReq.pc = "save" /\ patchReq'.pc = "done" /\ patchReq'.status = 200) =>
          LET a == patchReq.appId
          IN  /\ ProofIdsOf(sharedProofs', a) = applications'[a].sharedVcIds
              /\ applications'[a].sharedVcIds =
                   OwnedActiveIds(patchReq.requested, applications[a].seekerDid)
              /\ \A id \in applications'[a].sharedVcIds :
                   sharedProofs'[<<a, id>>] = credentials[id].vcRaw
     /\ (/\ patchReq.pc \in {"delete", "bulkWrite", "save"}
         /\ patchReq' # patchReq
         /\ patchReq'.status # 500
         /\ ProofIdsOf(sharedProofs, patchReq.appId) = patchReq.validSelected
         /\ applications[patchReq.appId].sharedVcIds = patchReq.validSelected) =>
          /\ sharedProofs' = sharedProofs
          /\ applications' = applications]_vars

\* a PATCH was answered 200 for a list with a credential of the seeker and an
\* id that names no credential: the credential is disclosed, the other id is not
PatchedSelectionWitness ==
  /\ patchReq.pc = "done"
  /\ patchReq.status = 200
  /\ patchReq.requested = ClientIds
  /\ \E id \in patchReq.requested :
       /\ applications[patchReq.appId].sharedVcIds = {id}
       /\ ProofIdsOf(sharedProofs, patchReq.appId) = {id}
       /\ credentials[id].subjectDid = applications[patchReq.appId].seekerDid


\* C36 (shared-VC editing is restricted): a PATCH /applications/:id/shared-vcs
\* gets past its load only if the application is stored, the session DID is
\* its seekerDid and the status the handler read is submitted; otherwise it
\* is answered at once, 404 for an absent application, 403 for a non-owner,
\* 409 for an owner once the status is no longer submitted.  A request that
\* was refused, and the load itself, change no sharedVcIds and no SharedProof
\* record: the PATCH changes them only in the steps behind the checks.
EditRestricted ==
  [][/\ (patchReq.pc = "idle" /\ patchReq'.pc # "idle") =>
          LET a == patchReq'.appId
              stored == a \in DOMAIN applications
              owner == stored /\ applications[a].seekerDid = patchReq'.sessionDid
              open == stored /\ applications[a].status = "submitted"
          IN  /\ (patchReq'.pc # "done") <=> (owner /\ open)
              /\ (stored /\ ~owner) => patchReq'.status = 403
              /\ (owner /\ ~open) => patchReq'.status = 409
              /\ ~stored => patchReq'.status = 404
     /\ (patchReq' # patchReq /\ patchReq.pc \notin {"delete", "bulkWrite", "save"}) =>
          /\ sharedProofs' = sharedProofs
          /\ applications' = applications
     /\ (patchReq.pc = "done" /\ patchReq.status \in {403, 404, 409}) =>
          (patchReq' # patchReq => patchReq'.pc = "idle")]_vars

\* the owner's edit is answered 409 after the recruiter moved the application
\* out of submitted
EditAfterReviewRefusedWitness ==
  /\ patchReq.pc = "done"
  /\ patchReq.status = 409
  /\ patchReq.appId \in DOMAIN applications
  /\ applications[patchReq.appId].seekerDid = patchReq.sessionDid
  /\ applications[patchReq.appId].status = "shortlisted"
  /\ patchReq.requested # {}


\* C37 (identity resolution order): when GET /seekers/me resolves the session
\* claim, with the DID and the wallet address trimmed and the email trimmed
\* and lower-cased, the answer is the holder whose DID is the claim DID if
\* there is one; otherwise, if the wallet address has the form of an address
\* and a holder has the did:pkh DID of the lower-cased address, that holder;
\* otherwise a holder whose email is the claim email; otherwise none (404).
\* A claim that is left with neither DID nor email is answered with the
\* identity-missing failure (500) and resolves nobody.
ResolutionOrder ==
  [][\A k \in HttpSlots :
       (At(k, "handler") /\ httpReq[k].route = "GET /seekers/me"
          /\ httpReq'[k].pc = "done") =>
         LET claim == httpReq[k].session
             did == trim(claim.did)
             w == trim(claim.wallet_address)
             email == toLowerCase(trim(claim.email))
             hasDid == {d \in DOMAIN seekerDocs :
                          did # NoDid /\ seekerDocs[d].did = did}
             hasDerived == {d \in DOMAIN seekerDocs :
                              /\ matchesAddressPattern(w)
                              /\ seekerDocs[d].did = didPkh(toLowerCase(w))}
             hasEmail == {d \in DOMAIN seekerDocs :
                            email # "" /\ seekerDocs[d].email = email}
             found == httpReq'[k].doc
             status == httpReq'[k].status
         IN  IF did = NoDid /\ email = ""
             THEN status = 500 /\ found = {}
             ELSE /\ status \in {200, 404}
                  /\ status = 404 <=> found = {}
                  /\ Cardinality(found) <= 1
                  /\ hasDid # {} => found \subseteq hasDid /\ found # {}
                  /\ (hasDid = {} /\ hasDerived # {}) =>
                       found \subseteq hasDerived /\ found # {}
                  /\ (hasDid = {} /\ hasDerived = {} /\ hasEmail # {}) =>
                       found \subseteq hasEmail /\ found # {}
                  /\ (hasDid = {} /\ hasDerived = {} /\ hasEmail = {}) =>
                       found = {}]_vars

\* a claim whose DID names nobody is resolved to the holder of its wallet's
\* did:pkh although another holder has the claim's email
ResolvedByWalletWitness ==
  \E k \in HttpSlots :
    /\ httpReq[k].pc = "done"
    /\ httpReq[k].route = "GET /seekers/me"
    /\ httpReq[k].status = 200
    /\ httpReq[k].session.wallet_address = "0xA1"
    /\ \E d \in httpReq[k].doc : seekerDocs[d].did = "did:seeker:1"
    /\ \E d \in DOMAIN seekerDocs :
         seekerDocs[d].email = toLowerCase(trim(httpReq[k].session.email))


\* C38 (DID assignment rule): when POST /seekers/onboard stores a new holder,
\* the holder's DID is the claim DID as it is written when that starts with
\* did:pkh:; otherwise the did:pkh of the claim's wallet address in lower case
\* when the address has the form of an address; otherwise the claim DID,
\* whatever it is; and no DID when the claim has neither.  The claim's DID
\* and wallet address are taken without surrounding blanks.
DidAssignmentRule ==
  [][\A k \in HttpSlots :
       (httpReq[k].pc = "onboardSave" /\ httpReq[k].doc = {}
          /\ httpReq'[k].pc = "onboardUserSave") =>
         LET claim == httpReq[k].session
             did == trim(claim.did)
             w == trim(claim.wallet_address)
             created == DOMAIN seekerDocs' \ DOMAIN seekerDocs
         IN  /\ Cardinality(created) = 1
             /\ \A d \in created :
                  LET stored == seekerDocs'[d].did
                  IN  /\ startsWithDidPkh(did) => stored = did
                      /\ (~startsWithDidPkh(did) /\ matchesAddressPattern(w)) =>
                           /\ stored = didPkh(toLowerCase(w))
                           /\ stored \in SeekerDids
                      /\ (~startsWithDidPkh(did) /\ ~matchesAddressPattern(w)) =>
                           stored = did
                      /\ (did = NoDid /\ w = "") => stored = NoDid]_vars

\* a new holder whose claim has a provider DID and a wallet address written
\* with capitals is stored under the did:pkh of the lower-cased address
DerivedDidStoredWitness ==
  \E k \in HttpSlots :
    /\ httpReq[k].pc = "onboardUserSave"
    /\ httpReq[k].doc = {}
    /\ httpReq[k].session.did = "did:privy:1"
    /\ httpReq[k].session.wallet_address = "0xA1"
    /\ \E d \in DOMAIN seekerDocs : seekerDocs[d].did = "did:seeker:1"


\* C39 (key provisioning is idempotent): a call that finds key material on
\* the issuer's document generates nothing: it goes to the exchange with the
\* stored key pair, through a save only when the curve label has a legacy
\* spelling, and that save stores the same key pair with the label
\* normalised.  No step of such a call stores anything else, and a call
\* generates a pair only when the document it read had none.
KeyProvisioningIdempotent ==
  [][\A k \in HttpSlots :
       LET did == keyReq'[k].issuerDid
       IN  /\ (keyReq[k].pc = "idle" /\ keyReq'[k].pc # "idle"
                 /\ did \in DOMAIN issuerDocs /\ issuerKeys[did] # NoKey) =>
                /\ keyReq'[k].pc \in {"normalise", "sign"}
                /\ keyReq'[k].key = fix(issuerKeys[did])
                /\ keyReq'[k].pc = "normalise" <=> issuerKeys[did] = LegacyKey
                /\ issuerKeys' = issuerKeys
           /\ (keyReq[k].pc = "normalise" /\ keyReq'[k] # keyReq[k]) =>
                \A i \in IssuerDids :
                  \/ issuerKeys'[i] = issuerKeys[i]
                  \/ /\ i = keyReq[k].issuerDid
                     /\ issuerKeys[i] # NoKey
                     /\ issuerKeys'[i] = fix(issuerKeys[i])
           /\ (keyReq[k].pc \in {"sign", "done"} /\ keyReq'[k] # keyReq[k]) =>
                issuerKeys' = issuerKeys
           /\ keyReq'[k].pc = "generate" => keyReq'[k].key = NoKey \/ keyReq[k].pc = "generate"]_vars

\* a second call finds the key pair a first call generated, stored and
\* signed with, and is at the exchange with that pair
SecondCallReusesKeyWitness ==
  \E k \in HttpSlots :
    /\ keyReq[k].pc = "sign"
    /\ keyReq[k].key = "key:1"
    /\ issuerKeys[keyReq[k].issuerDid] = "key:1"
    /\ <<keyReq[k].issuerDid, "key:1">> \in signedWith
    /\ generateBbsKeyPair(k) # "key:1"

=============================================================================
